---- MODULE Spec2Model ----
(***************************************************************************)
(* A model of the cloud-provider core of karpenter-provider-alicloud.      *)
(*                                                                         *)
(* Ten subsystems are modelled, each with a specification of its own       *)
(* over the shared variables (the variables of the other subsystems stay   *)
(* at their initial values):                                               *)
(*                                                                         *)
(*   SpecPricing  pkg/providers/pricing: the price cache and its refresh   *)
(*   SpecLT       pkg/providers/launchtemplate: the launch-template cache  *)
(*   SpecLTLive   the same with the fairness of its scheduling             *)
(*   SpecLaunch   pkg/providers/vswitch and pkg/providers/instance: the    *)
(*                in-flight IP accounting and the launch pipeline          *)
(*   SpecDrift    pkg/cloudprovider: the drift check of a NodeClaim        *)
(*   SpecFacade   pkg/cloudprovider: Create, Delete and Get of a NodeClaim *)
(*   SpecList     pkg/cloudprovider: the paginated List of instances       *)
(*   SpecRequest  pkg/providers/instance: the auto-provisioning request    *)
(*   SpecStatus   pkg/controllers/nodeclass/status: the status reconciler  *)
(*   SpecFilter   pkg/providers/instance: the filter of the candidates     *)
(*   SpecTypes    pkg/providers/instancetype: the cached instance types    *)
(*                                                                         *)
(* Prices are integers (the code's float64 is only compared and copied).   *)
(* Maps of the code are functions whose DOMAIN is the set of keys.         *)
(***************************************************************************)
EXTENDS Integers, Sequences, FiniteSets, TLC

EmptyMap == [x \in {} |-> 0]

\* A Go map read m[k] of a missing key yields the zero value.
MapGet(m, k, zero) == IF k \in DOMAIN m THEN m[k] ELSE zero

\* delete(m, k)
MapDelete(m, k) == [x \in (DOMAIN m) \ {k} |-> m[x]]

\* m[k] = v
MapSet(m, k, v) == [x \in (DOMAIN m) \cup {k} |-> IF x = k THEN v ELSE m[x]]

(***************************************************************************)
(* PRICING                                                                 *)
(***************************************************************************)
VARIABLES
    region,                      \* DefaultProvider.region
    onDemandPrices,              \* DefaultProvider.onDemandPrices
    spotPrices,                  \* DefaultProvider.spotPrices: type -> zonal
    spotPricingUpdated,          \* DefaultProvider.spotPricingUpdated
    priceLastUpdatedTimestamp,   \* DefaultProvider.priceLastUpdatedTimestamp
    priceData,                   \* QueryClientImpl.priceData[region] (EmptyMap: no price info)
    now,                         \* time.Now(), in minutes
    ppc,                         \* per caller: position in UpdateOnDemandPricing / UpdateSpotPricing
    pkind,                       \* per caller: "od" (UpdateOnDemandPricing) or "spot" (UpdateSpotPricing)
    lastUpdatedTime,             \* per caller: the local lastUpdatedTime of syncPricingData
    syncOutcome,                 \* per caller: how the Sync of the current call ended ("none": no Sync made)
    pcalls,                      \* number of update calls started
    lastSyncTime,                \* history: the time of the last Sync call that returned nil (NoSync: none)
    minSyncGap,                  \* history: the least time between two such Sync calls, capped at PriceSyncInterval
    spotUpdateReturnedNil,       \* history: some UpdateSpotPricing call returned nil
    odUpdateReturnedNil          \* history: some UpdateOnDemandPricing call returned nil

pricingVars == <<region, onDemandPrices, spotPrices, spotPricingUpdated,
                 priceLastUpdatedTimestamp, priceData, now, ppc, pkind,
                 lastUpdatedTime, syncOutcome, pcalls, lastSyncTime,
                 minSyncGap, spotUpdateReturnedNil, odUpdateReturnedNil>>

VARIABLES
    ltCache,            \* launchtemplate DefaultProvider.cache items: name -> [id, expired]
    onEvicted,          \* whether the cache's eviction callback is attached
    cloudTemplates,     \* the launch templates that exist in the cloud: name -> id
    nextTemplateID,     \* the id the cloud gives the next template it creates
    ltMu,               \* launchtemplate DefaultProvider.Mutex: its holder, or NoHolder
    ltpc,               \* per worker: position in EnsureAll / InvalidateCache
    ltTodo,             \* per worker: the resolved launch templates still to ensure
    pendingEvictions,   \* eviction callbacks invoked by the cache and waiting for the mutex
    deleteAllNames,     \* DeleteAll: the names described and not yet deleted
    ltCalls,            \* number of EnsureAll / InvalidateCache / DeleteAll calls started
    ltCreated,          \* history: per name, the create calls that succeeded
    ltRemoved,          \* history: per name, the templates removed from the cloud
    ltReused,           \* history: per name, how EnsureAll reused a template
    evictDeleteCalls,   \* history: delete calls issued by the eviction callback
    evictSkipped        \* history: the eviction callback returned on a refreshed key

ltVars == <<ltCache, onEvicted, cloudTemplates, nextTemplateID, ltMu, ltpc,
            ltTodo, pendingEvictions, deleteAllNames, ltCalls, ltCreated,
            ltRemoved, ltReused, evictDeleteCalls, evictSkipped>>

VARIABLES
    availableIPAddressCache,  \* vswitch DefaultProvider.availableIPAddressCache: id -> count
    inflightIPs,              \* vswitch DefaultProvider.inflightIPs: id -> count
    vswitchListCached,        \* vswitch DefaultProvider.cache holds the List result of the selector
    vsMu,                     \* vswitch DefaultProvider.Mutex: its holder, or NoHolder
    lpc,                      \* per worker: position in instance Create
    lTypes,                   \* per worker: the instanceTypes of the Create
    lCT,                      \* per worker: capacityType of launchInstance
    zonalVSwitches,           \* per worker: zonalVSwitches of ZonalVSwitchesForLaunch
    prevIPs,                  \* per worker: prevIPs of ZonalVSwitchesForLaunch, per chosen id
    lRequest,                 \* per worker: the VSwitchIds of the provisioning-group request
    lResponse,                \* per worker: the VSwitchIds of the launched instances
    lOutcome,                 \* per worker: how the last Create ended
    restored,                 \* per worker: UpdateInflightIPs has run on the last launch
    debitLedger,              \* history: in-flight counts as the ledger of debits and add-backs
    outstandingDebits,        \* history: per worker, the debits no refresh has cleared: id -> IPs
    vsEvents                  \* number of List calls and cache expiries so far

launchVars == <<availableIPAddressCache, inflightIPs, vswitchListCached, vsMu,
                lpc, lTypes, lCT, zonalVSwitches, prevIPs, lRequest, lResponse,
                lOutcome, restored, debitLedger, outstandingDebits, vsEvents>>

VARIABLES
    nodeClaim,                \* the NodeClaim handed to IsDrifted: its annotations
    nodeClass,                \* the ECSNodeClass of its NodePool: annotations and status
    ecsInstance,              \* the instance behind the NodeClaim's provider id
    driftLookup,              \* how far the lookups of IsDrifted get
    driftResult               \* what the last IsDrifted returned, or NoDriftResult

driftVars == <<nodeClaim, nodeClass, ecsInstance, driftLookup, driftResult>>

VARIABLES
    instanceTypeOfferings,    \* instancetype DefaultProvider.instanceTypeOfferings: type -> zones
    unavailableOfferings,     \* the unavailable-offerings cache: (type, zone, capacity type)
    ecsInstances,             \* the instances the cloud holds, by id
    nextInstanceID,           \* the id the cloud gives to the next instance
    createCall,               \* the last CloudProvider.Create: what it saw and returned
    deleteCall,               \* the last CloudProvider.Delete: what it saw and returned
    getCall                   \* the last CloudProvider.Get: what it saw and returned

facadeVars == <<instanceTypeOfferings, unavailableOfferings, ecsInstances,
                nextInstanceID, createCall, deleteCall, getCall>>

VARIABLES
    taggedInstances,          \* the cloud's instances that match the tag filter of List, by id
    pageSize,                 \* how many instances the cloud puts on a page
    listpc,                   \* position in CloudProvider.List
    requestToken,             \* describeInstancesRequest.NextToken: 0 when unset
    listedInstances,                   \* instances of instance List, by id
    listOutcome,              \* what List returned: "none", "ok" or "error"
    ctxCancelled,             \* the context of List is cancelled
    pagesAfterCancel          \* history: requests for a further page issued after the cancellation

listVars == <<taggedInstances, pageSize, listpc, requestToken, listedInstances, listOutcome,
              ctxCancelled, pagesAfterCancel>>

VARIABLES
    claimRequirements,        \* nodeClaim.Spec.Requirements: the capacity types and zones admitted
    candidateTypes,           \* the instanceTypes slice handed to launchInstance
    zonalVSwitchs,            \* what ZonalVSwitchesForLaunch returns: zone -> [ID]
    nodeClassTags,            \* nodeClass.Spec.Tags
    launchCall                \* what the last launchInstance did, NoCall before the first

requestVars == <<claimRequirements, candidateTypes, zonalVSwitchs, nodeClassTags, launchCall>>

VARIABLES
    apiNodeClass,             \* the NodeClass as the API server stores it
    rcNodeClass,              \* nodeClass of Controller.Reconcile: the object read, then changed in place
    rcStored,                 \* stored of Controller.Reconcile: the DeepCopy a patch is computed from
    rcpc,                     \* position in Controller.Reconcile
    rcResults,                \* results of the three status reconcilers: RequeueAfter in minutes, 0 unset
    rcErrs,                   \* errs of Controller.Reconcile is not nil
    rcOutcomes,               \* history: what the three selectors resolved to in this Reconcile
    rcWrite,                  \* history: the last patch this Reconcile sent
    rcResult,                 \* what the last Reconcile returned
    reconciles,               \* Reconcile calls started
    otherWrites               \* writes of other clients to the stored NodeClass

statusVars == <<apiNodeClass, rcNodeClass, rcStored, rcpc, rcResults, rcErrs, rcOutcomes,
                rcWrite, rcResult, reconciles, otherWrites>>

VARIABLES
    filterClaim,              \* nodeClaim.Spec.Requirements handed to filterInstanceTypes
    filterCandidates,         \* the instanceTypes slice handed to filterInstanceTypes
    filterResult              \* what filterInstanceTypes returned, NoFilterResult before the call

filterVars == <<filterClaim, filterCandidates, filterResult>>

VARIABLES
    instanceTypesInfo,            \* instancetype DefaultProvider.instanceTypesInfo: the type ids stored
    zoneOfferings,                \* DefaultProvider.instanceTypeOfferings of this provider: type -> zones
    instanceTypesSeqNum,          \* DefaultProvider.instanceTypesSeqNum
    instanceTypeOfferingsSeqNum,  \* DefaultProvider.instanceTypeOfferingsSeqNum
    unavailableCache,             \* the unavailable-offerings cache: its triples and its SeqNum
    cmLastSeen,                   \* DefaultProvider.cm: key -> the content last seen
    instanceTypesCache,           \* DefaultProvider.instanceTypesCache: key -> the list stored
    providerPrices,               \* what the pricing provider answers: [od, spot]
    typeUpdates,                  \* update calls started
    lastUpdate,                   \* history: the last update call, what it fetched and did
    lastList                      \* history: the last List call, its result and a fresh computation

typesVars == <<instanceTypesInfo, zoneOfferings, instanceTypesSeqNum,
               instanceTypeOfferingsSeqNum, unavailableCache, cmLastSeen, instanceTypesCache,
               providerPrices, typeUpdates, lastUpdate, lastList>>

cloudVars == <<driftVars, facadeVars, listVars, requestVars, statusVars, filterVars, typesVars>>

PriceCallers == {"p1", "p2"}
InstanceTypeNames == {"t1", "t2"}
PriceZones == {"za", "zb"}

MaxPriceCalls == 3
MaxNow == 12

\* The clock advances in steps of this many minutes.
TickMinutes == 3

\* time.Minute * 5
PriceSyncInterval == 5

NoSync == 0 - 1

defaultRegion == "cn-qingdao"

\* The embedded initial-on-demand-prices.json: region -> instance type -> price.
initialOnDemandPrices ==
    [r \in {"cn-qingdao", "cn-beijing"} |->
        IF r = "cn-qingdao" THEN [t \in {"t1"} |-> 10]
        ELSE [t \in {"t1", "t2"} |-> IF t = "t1" THEN 12 ELSE 20]]

ConfiguredRegions == {"cn-beijing", "eu-test-1"}

\* What the price feed can hold for the region: instance type ->
\* [OnDemandPricePerHour, SpotPricePerHour: zone -> price].
FeedA ==
    [t \in {"t1", "t2"} |->
        IF t = "t1" THEN [od |-> 11, spot |-> [z \in {"za"} |-> 3]]
        ELSE [od |-> 21, spot |-> [z \in {"za", "zb"} |-> IF z = "za" THEN 5 ELSE 6]]]

FeedB == [t \in {"t1"} |-> [od |-> 13, spot |-> [z \in {"za", "zb"} |-> 4]]]

FeedVersions == {FeedA, FeedB, EmptyMap}

\* DefaultProvider.OnDemandPrice
OnDemandPrice(instanceType) ==
    IF instanceType \in DOMAIN onDemandPrices
    THEN [price |-> onDemandPrices[instanceType], ok |-> TRUE]
    ELSE [price |-> 0, ok |-> FALSE]

\* A SpotPrice that forgets the spotPricingUpdated flag.
SpotPriceNoFlag(instanceType, zone) ==
    IF instanceType \in DOMAIN spotPrices
    THEN IF zone \in DOMAIN spotPrices[instanceType].prices
         THEN [price |-> spotPrices[instanceType].prices[zone], ok |-> TRUE]
         ELSE [price |-> 0, ok |-> FALSE]
    ELSE [price |-> 0, ok |-> FALSE]

\* DefaultProvider.SpotPrice
SpotPrice(instanceType, zone) ==
    IF instanceType \in DOMAIN spotPrices
    THEN IF ~spotPricingUpdated
         THEN [price |-> spotPrices[instanceType].defaultPrice, ok |-> TRUE]
         ELSE IF zone \in DOMAIN spotPrices[instanceType].prices
              THEN [price |-> spotPrices[instanceType].prices[zone], ok |-> TRUE]
              ELSE [price |-> 0, ok |-> FALSE]
    ELSE [price |-> 0, ok |-> FALSE]

newZonalPricing(defaultPrice) == [defaultPrice |-> defaultPrice, prices |-> EmptyMap]

populateInitialSpotPricing(pricing) ==
    [it \in DOMAIN pricing |-> newZonalPricing(pricing[it])]

\* A Reset without the fallback to defaultRegion.
staticPricingNoFallback(r) ==
    IF r \in DOMAIN initialOnDemandPrices THEN initialOnDemandPrices[r] ELSE EmptyMap

\* Reset: the static pricing of the region, or of defaultRegion when the
\* snapshot does not hold the region.
staticPricing(r) ==
    IF r \in DOMAIN initialOnDemandPrices
    THEN initialOnDemandPrices[r]
    ELSE initialOnDemandPrices[defaultRegion]

\* NewDefaultProvider: NewQueryClient has synced once (priceData), Reset has run.
PricingInit ==
    /\ region \in ConfiguredRegions
    /\ onDemandPrices = staticPricing(region)
    /\ spotPrices = populateInitialSpotPricing(staticPricing(region))
    /\ spotPricingUpdated = FALSE
    /\ priceLastUpdatedTimestamp = 0
    /\ priceData \in FeedVersions
    /\ now = PriceSyncInterval + 1
    /\ ppc = [w \in PriceCallers |-> "idle"]
    /\ pkind = [w \in PriceCallers |-> "od"]
    /\ lastUpdatedTime = [w \in PriceCallers |-> 0]
    /\ syncOutcome = [w \in PriceCallers |-> "none"]
    /\ pcalls = 0
    /\ lastSyncTime = NoSync
    /\ minSyncGap = PriceSyncInterval
    /\ spotUpdateReturnedNil = FALSE
    /\ odUpdateReturnedNil = FALSE

\* A caller enters UpdateOnDemandPricing or UpdateSpotPricing; syncPricingData
\* reads the timestamp under its lock and releases the lock.
ReadTimestamp(w, kind) ==
    /\ ppc[w] = "idle"
    /\ pcalls < MaxPriceCalls
    /\ pcalls' = pcalls + 1
    /\ pkind' = [pkind EXCEPT ![w] = kind]
    /\ lastUpdatedTime' = [lastUpdatedTime EXCEPT ![w] = priceLastUpdatedTimestamp]
    /\ ppc' = [ppc EXCEPT ![w] = "check"]
    /\ UNCHANGED <<region, onDemandPrices, spotPrices, spotPricingUpdated,
                   priceLastUpdatedTimestamp, priceData, now, syncOutcome,
                   lastSyncTime, minSyncGap, spotUpdateReturnedNil,
                   odUpdateReturnedNil>>
    /\ UNCHANGED <<ltVars, launchVars, cloudVars>>

\* lastUpdatedTime.Add(time.Minute * 5).Before(time.Now())
SyncDue(t) == t + PriceSyncInterval < now

\* QueryClientImpl.Sync: the outcomes of the HTTP fetch.
\*   "ok"         the data is fetched and decoded into priceData; returns nil
\*   "transport"  http.DefaultClient.Do fails; returns the error
\*   "status"     the status is not 200: `return err` with err == nil, so nil
\*   "decode"     json.Unmarshal fails, having written some or none of the data
SyncOutcomes == {"ok", "transport", "status", "decode"}
SyncFailures == {"transport", "status", "decode"}

\* Whether Sync returns nil to syncPricingData.
SyncReturnsNil(outcome) == outcome \in {"ok", "status"}

\* The call returns: the caller's locals are gone.
PriceReturn(w) ==
    /\ ppc' = [ppc EXCEPT ![w] = "idle"]
    /\ pkind' = [pkind EXCEPT ![w] = "od"]
    /\ lastUpdatedTime' = [lastUpdatedTime EXCEPT ![w] = 0]
    /\ syncOutcome' = [syncOutcome EXCEPT ![w] = "none"]

\* syncPricingData: the test of the timestamp and, when due, the Sync call. An error of Sync
\* is returned by syncPricingData and by the update.
CheckAndSync(w, outcome, d) ==
    /\ ppc[w] = "check"
    /\ IF SyncDue(lastUpdatedTime[w])
       THEN /\ priceData' = CASE outcome = "ok" -> d
                              [] outcome = "decode" -> d
                              [] OTHER -> priceData
            /\ IF SyncReturnsNil(outcome)
               THEN /\ lastSyncTime' = now
                    /\ minSyncGap' = IF lastSyncTime # NoSync /\ now - lastSyncTime < minSyncGap
                                     THEN now - lastSyncTime
                                     ELSE minSyncGap
                    /\ syncOutcome' = [syncOutcome EXCEPT ![w] = outcome]
                    /\ ppc' = [ppc EXCEPT ![w] = "stamp"]
                    /\ UNCHANGED <<pkind, lastUpdatedTime>>
               ELSE /\ UNCHANGED <<lastSyncTime, minSyncGap>>
                    /\ PriceReturn(w)
       ELSE /\ ppc' = [ppc EXCEPT ![w] = "apply"]
            /\ UNCHANGED <<syncOutcome, priceData, lastSyncTime, minSyncGap,
                           pkind, lastUpdatedTime>>
    /\ UNCHANGED <<region, onDemandPrices, spotPrices, spotPricingUpdated,
                   priceLastUpdatedTimestamp, now, pcalls,
                   spotUpdateReturnedNil, odUpdateReturnedNil>>
    /\ UNCHANGED <<ltVars, launchVars, cloudVars>>

\* syncPricingData: p.priceLastUpdatedTimestamp = time.Now(), under the lock.
StampTimestamp(w) ==
    /\ ppc[w] = "stamp"
    /\ priceLastUpdatedTimestamp' = now
    /\ ppc' = [ppc EXCEPT ![w] = "apply"]
    /\ UNCHANGED <<region, onDemandPrices, spotPrices, spotPricingUpdated,
                   priceData, now, pkind, lastUpdatedTime, syncOutcome, pcalls,
                   lastSyncTime, minSyncGap, spotUpdateReturnedNil, odUpdateReturnedNil>>
    /\ UNCHANGED <<ltVars, launchVars, cloudVars>>

\* UpdateOnDemandPricing after syncPricingData: lo.MapEntries over the feed.
OnDemandFromFeed(prices) == [t \in DOMAIN prices |-> prices[t].od]

\* UpdateSpotPricing after syncPricingData: the feed is merged into spotPrices.
SpotMerge(old, prices) ==
    [t \in (DOMAIN old) \cup (DOMAIN prices) |->
        LET base == IF t \in DOMAIN old THEN old[t] ELSE newZonalPricing(0)
        IN  IF t \in DOMAIN prices
            THEN [base EXCEPT !.prices = prices[t].spot @@ base.prices]
            ELSE base]

\* The rest of UpdateOnDemandPricing / UpdateSpotPricing: ListInstancesDetails
\* and, unless it holds nothing for the region, the update of the map.
ApplyPrices(w) ==
    /\ ppc[w] = "apply"
    /\ PriceReturn(w)
    /\ IF priceData = EmptyMap
       THEN UNCHANGED <<onDemandPrices, spotPrices, spotPricingUpdated,
                        spotUpdateReturnedNil, odUpdateReturnedNil>>
       ELSE IF pkind[w] = "od"
            THEN /\ onDemandPrices' = OnDemandFromFeed(priceData)
                 /\ odUpdateReturnedNil' = TRUE
                 /\ UNCHANGED <<spotPrices, spotPricingUpdated, spotUpdateReturnedNil>>
            ELSE /\ spotPrices' = SpotMerge(spotPrices, priceData)
                 /\ spotPricingUpdated' = TRUE
                 /\ spotUpdateReturnedNil' = TRUE
                 /\ UNCHANGED <<onDemandPrices, odUpdateReturnedNil>>
    /\ UNCHANGED <<region, priceLastUpdatedTimestamp, priceData, now, pcalls,
                   lastSyncTime, minSyncGap>>
    /\ UNCHANGED <<ltVars, launchVars, cloudVars>>

\* Time passes.
Tick ==
    /\ now + TickMinutes <= MaxNow
    /\ now' = now + TickMinutes
    /\ UNCHANGED <<region, onDemandPrices, spotPrices, spotPricingUpdated,
                   priceLastUpdatedTimestamp, priceData, ppc, pkind,
                   lastUpdatedTime, syncOutcome, pcalls, lastSyncTime, minSyncGap,
                   spotUpdateReturnedNil, odUpdateReturnedNil>>
    /\ UNCHANGED <<ltVars, launchVars, cloudVars>>

PricingNext ==
    \/ \E w \in PriceCallers, kind \in {"od", "spot"} : ReadTimestamp(w, kind)
    \/ \E w \in PriceCallers, outcome \in SyncOutcomes, d \in FeedVersions :
            CheckAndSync(w, outcome, d)
    \/ \E w \in PriceCallers : StampTimestamp(w)
    \/ \E w \in PriceCallers : ApplyPrices(w)
    \/ Tick

(***************************************************************************)
(* LAUNCH TEMPLATES                                                        *)
(***************************************************************************)
LTWorkers == {"w1", "w2"}
TemplateNames == {"lt-a", "lt-b"}
NoHolder == "none"

\* What imageFamily.Resolve can hand EnsureAll: the names (content hashes) of
\* the resolved launch templates, in order.
ResolvedLists == {<<"lt-a">>, <<"lt-a", "lt-b">>, <<>>}

MaxLTCalls == 3

\* The launch templates of the cluster that a starting controller can find in
\* the cloud: name -> id.
ExistingTemplates == {EmptyMap, [n \in {"lt-a"} |-> 1]}

\* cache.Get / cache.GetWithExpiration: an expired item is not found.
CacheLive(name) == name \in DOMAIN ltCache /\ ~ltCache[name].expired

\* cache.SetDefault(name, id): the item is stored with a fresh expiration.
CacheSetDefault(name, id) == MapSet(ltCache, name, [id |-> id, expired |-> FALSE])

\* sync.Mutex.Lock of the provider.
LTLockFree == ltMu = NoHolder

\* hydrateCache: every launch template described is cached under its name.
hydrateCache(templates) == [n \in DOMAIN templates |-> [id |-> templates[n], expired |-> FALSE]]

\* NewDefaultProvider: the eviction callback is attached and hydrateCache has
\* run, to the end or to a failure of its describe call.
LTInit ==
    /\ cloudTemplates \in ExistingTemplates
    /\ ltCache \in {EmptyMap, hydrateCache(cloudTemplates)}
    /\ onEvicted = TRUE
    /\ nextTemplateID = 2
    /\ ltMu = NoHolder
    /\ ltpc = [w \in LTWorkers |-> "idle"]
    /\ ltTodo = [w \in LTWorkers |-> <<>>]
    /\ pendingEvictions = {}
    /\ deleteAllNames = {}
    /\ ltCalls = 0
    /\ ltCreated = [n \in TemplateNames |-> 0]
    /\ ltRemoved = [n \in TemplateNames |-> 0]
    /\ ltReused = [n \in TemplateNames |-> {}]
    /\ evictDeleteCalls = 0
    /\ evictSkipped = FALSE

\* EnsureAll returns (the deferred Unlock), or goes on with the next template.
EnsureContinue(w, rest) ==
    /\ ltTodo' = [ltTodo EXCEPT ![w] = rest]
    /\ IF rest = <<>>
       THEN /\ ltpc' = [ltpc EXCEPT ![w] = "idle"]
            /\ ltMu' = NoHolder
       ELSE /\ ltpc' = [ltpc EXCEPT ![w] = "ensure"]
            /\ ltMu' = ltMu

\* EnsureAll returns an error (the deferred Unlock).
EnsureFail(w) ==
    /\ ltTodo' = [ltTodo EXCEPT ![w] = <<>>]
    /\ ltpc' = [ltpc EXCEPT ![w] = "idle"]
    /\ ltMu' = NoHolder

\* EnsureAll: Lock, resolveImageOptions and imageFamily.Resolve.
EnsureAllBegin(w, resolved) ==
    /\ ltpc[w] = "idle"
    /\ ltCalls < MaxLTCalls
    /\ LTLockFree
    /\ ltCalls' = ltCalls + 1
    /\ ltTodo' = [ltTodo EXCEPT ![w] = resolved]
    /\ IF resolved = <<>>
       THEN /\ ltpc' = ltpc
            /\ ltMu' = ltMu
       ELSE /\ ltpc' = [ltpc EXCEPT ![w] = "ensure"]
            /\ ltMu' = w
    /\ UNCHANGED <<ltCache, onEvicted, cloudTemplates, nextTemplateID,
                   pendingEvictions, deleteAllNames, ltCreated, ltRemoved,
                   ltReused, evictDeleteCalls, evictSkipped>>
    /\ UNCHANGED <<pricingVars, launchVars, cloudVars>>

\* ensureLaunchTemplate: p.cache.Get(name)
CacheHit(name) == CacheLive(name)

\* ensureLaunchTemplate: the read of the cache; a hit refreshes the item and
\* returns its id.
EnsureLookup(w) ==
    /\ ltpc[w] = "ensure"
    /\ LET name == Head(ltTodo[w])
       IN  IF CacheHit(name)
           THEN /\ ltCache' = CacheSetDefault(name, MapGet(ltCache, name, [id |-> 0]).id)
                /\ ltReused' = [ltReused EXCEPT ![name] = @ \cup {"cache"}]
                /\ EnsureContinue(w, Tail(ltTodo[w]))
           ELSE /\ ltpc' = [ltpc EXCEPT ![w] = "describe"]
                /\ UNCHANGED <<ltCache, ltReused, ltTodo, ltMu>>
    /\ UNCHANGED <<onEvicted, cloudTemplates, nextTemplateID, pendingEvictions,
                   deleteAllNames, ltCalls, ltCreated, ltRemoved,
                   evictDeleteCalls, evictSkipped>>
    /\ UNCHANGED <<pricingVars, launchVars, cloudVars>>

\* A describe-by-name that never finds the template.
DescribeFoundNever(name) == FALSE

\* ensureLaunchTemplate: len(output.Body.LaunchTemplateSets.LaunchTemplateSet) # 0
DescribeFound(name) == name \in DOMAIN cloudTemplates

\* ensureLaunchTemplate: DescribeLaunchTemplates by name; a template found is
\* cached and returned; none found leads to createLaunchTemplate.
EnsureDescribe(w, ok) ==
    /\ ltpc[w] = "describe"
    /\ LET name == Head(ltTodo[w])
       IN  IF ~ok
           THEN /\ EnsureFail(w)
                /\ UNCHANGED <<ltCache, ltReused>>
           ELSE IF DescribeFound(name)
                THEN /\ ltCache' = CacheSetDefault(name, MapGet(cloudTemplates, name, 0))
                     /\ ltReused' = [ltReused EXCEPT ![name] = @ \cup {"describe"}]
                     /\ EnsureContinue(w, Tail(ltTodo[w]))
                ELSE /\ ltpc' = [ltpc EXCEPT ![w] = "create"]
                     /\ UNCHANGED <<ltCache, ltReused, ltTodo, ltMu>>
    /\ UNCHANGED <<onEvicted, cloudTemplates, nextTemplateID, pendingEvictions,
                   deleteAllNames, ltCalls, ltCreated, ltRemoved,
                   evictDeleteCalls, evictSkipped>>
    /\ UNCHANGED <<pricingVars, launchVars, cloudVars>>

\* createLaunchTemplate and the SetDefault after it. The cloud refuses a
\* second template of a name.
EnsureCreate(w, ok) ==
    /\ ltpc[w] = "create"
    /\ LET name == Head(ltTodo[w])
       IN  IF ok /\ name \notin DOMAIN cloudTemplates
           THEN /\ cloudTemplates' = MapSet(cloudTemplates, name, nextTemplateID)
                /\ nextTemplateID' = nextTemplateID + 1
                /\ ltCreated' = [ltCreated EXCEPT ![name] = @ + 1]
                /\ ltCache' = CacheSetDefault(name, nextTemplateID)
                /\ EnsureContinue(w, Tail(ltTodo[w]))
           ELSE /\ EnsureFail(w)
                /\ UNCHANGED <<cloudTemplates, nextTemplateID, ltCreated, ltCache>>
    /\ UNCHANGED <<onEvicted, pendingEvictions, deleteAllNames, ltCalls,
                   ltRemoved, ltReused, evictDeleteCalls, evictSkipped>>
    /\ UNCHANGED <<pricingVars, launchVars, cloudVars>>

\* The TTL of a cache item runs out.
ExpireItem(name) ==
    /\ CacheLive(name)
    /\ ltCache' = [ltCache EXCEPT ![name].expired = TRUE]
    /\ UNCHANGED <<onEvicted, cloudTemplates, nextTemplateID, ltMu, ltpc, ltTodo,
                   pendingEvictions, deleteAllNames, ltCalls, ltCreated,
                   ltRemoved, ltReused, evictDeleteCalls, evictSkipped>>
    /\ UNCHANGED <<pricingVars, launchVars, cloudVars>>

\* The cache's janitor (DeleteExpired): every expired item is deleted, and the
\* eviction callback, when one is attached, is invoked on each.
DeleteExpired ==
    LET expired == {n \in DOMAIN ltCache : ltCache[n].expired}
    IN  /\ expired # {}
        /\ ltCache' = [n \in (DOMAIN ltCache) \ expired |-> ltCache[n]]
        /\ pendingEvictions' =
              IF onEvicted
              THEN pendingEvictions \cup {[key |-> n, id |-> ltCache[n].id] : n \in expired}
              ELSE pendingEvictions
        /\ UNCHANGED <<onEvicted, cloudTemplates, nextTemplateID, ltMu, ltpc,
                       ltTodo, deleteAllNames, ltCalls, ltCreated, ltRemoved,
                       ltReused, evictDeleteCalls, evictSkipped>>
        /\ UNCHANGED <<pricingVars, launchVars, cloudVars>>

\* A callback that deletes without looking at the cache again.
KeyRefreshedNever(key) == FALSE

\* cachedEvictedFunc: GetWithExpiration(key) gives an expiration after now.
KeyRefreshed(key) == CacheLive(key)

\* cachedEvictedFunc(key, id): under the mutex, return when the key has been
\* refreshed, else DeleteLaunchTemplate (which may fail).
EvictedCallback(e, ok) ==
    /\ e \in pendingEvictions
    /\ LTLockFree
    /\ pendingEvictions' = pendingEvictions \ {e}
    /\ IF KeyRefreshed(e.key)
       THEN /\ evictSkipped' = TRUE
            /\ UNCHANGED <<cloudTemplates, ltRemoved, evictDeleteCalls>>
       ELSE /\ evictDeleteCalls' = evictDeleteCalls + 1
            /\ evictSkipped' = evictSkipped
            /\ IF ok /\ e.key \in DOMAIN cloudTemplates /\ MapGet(cloudTemplates, e.key, 0) = e.id
               THEN /\ cloudTemplates' = MapDelete(cloudTemplates, e.key)
                    /\ ltRemoved' = [ltRemoved EXCEPT ![e.key] = @ + 1]
               ELSE UNCHANGED <<cloudTemplates, ltRemoved>>
    /\ UNCHANGED <<ltCache, onEvicted, nextTemplateID, ltMu, ltpc, ltTodo,
                   deleteAllNames, ltCalls, ltCreated, ltReused>>
    /\ UNCHANGED <<pricingVars, launchVars, cloudVars>>

\* An InvalidateCache that leaves the callback attached.
CallbackWhileInvalidatingKept == TRUE

\* InvalidateCache: p.cache.OnEvicted(nil)
CallbackWhileInvalidating == FALSE

\* InvalidateCache: Lock, and the eviction callback is detached.
InvalidateBegin(w, name) ==
    /\ ltpc[w] = "idle"
    /\ ltCalls < MaxLTCalls
    /\ LTLockFree
    /\ ltCalls' = ltCalls + 1
    /\ ltMu' = w
    /\ onEvicted' = CallbackWhileInvalidating
    /\ ltTodo' = [ltTodo EXCEPT ![w] = <<name>>]
    /\ ltpc' = [ltpc EXCEPT ![w] = "invalidate"]
    /\ UNCHANGED <<ltCache, cloudTemplates, nextTemplateID, pendingEvictions,
                   deleteAllNames, ltCreated, ltRemoved, ltReused,
                   evictDeleteCalls, evictSkipped>>
    /\ UNCHANGED <<pricingVars, launchVars, cloudVars>>

\* InvalidateCache: p.cache.Delete(ltName). cache.Delete invokes the eviction
\* callback on the deleted item when one is attached.
InvalidateDelete(w) ==
    /\ ltpc[w] = "invalidate"
    /\ LET name == Head(ltTodo[w])
       IN  /\ ltCache' = MapDelete(ltCache, name)
           /\ pendingEvictions' =
                 IF onEvicted /\ name \in DOMAIN ltCache
                 THEN pendingEvictions \cup {[key |-> name, id |-> ltCache[name].id]}
                 ELSE pendingEvictions
    /\ ltpc' = [ltpc EXCEPT ![w] = "reattach"]
    /\ UNCHANGED <<onEvicted, cloudTemplates, nextTemplateID, ltMu, ltTodo,
                   deleteAllNames, ltCalls, ltCreated, ltRemoved, ltReused,
                   evictDeleteCalls, evictSkipped>>
    /\ UNCHANGED <<pricingVars, launchVars, cloudVars>>

\* InvalidateCache returns: the deferred OnEvicted(cachedEvictedFunc), then
\* the deferred Unlock.
InvalidateEnd(w) ==
    /\ ltpc[w] = "reattach"
    /\ onEvicted' = TRUE
    /\ ltMu' = NoHolder
    /\ ltpc' = [ltpc EXCEPT ![w] = "idle"]
    /\ ltTodo' = [ltTodo EXCEPT ![w] = <<>>]
    /\ UNCHANGED <<ltCache, cloudTemplates, nextTemplateID, pendingEvictions,
                   deleteAllNames, ltCalls, ltCreated, ltRemoved, ltReused,
                   evictDeleteCalls, evictSkipped>>
    /\ UNCHANGED <<pricingVars, launchVars, cloudVars>>

\* DeleteAll: describeLaunchTemplates by the cluster and node-class tags. The
\* provider's mutex is not taken.
DeleteAllDescribe ==
    /\ deleteAllNames = {}
    /\ ltCalls < MaxLTCalls
    /\ DOMAIN cloudTemplates # {}
    /\ ltCalls' = ltCalls + 1
    /\ deleteAllNames' = DOMAIN cloudTemplates
    /\ UNCHANGED <<ltCache, onEvicted, cloudTemplates, nextTemplateID, ltMu,
                   ltpc, ltTodo, pendingEvictions, ltCreated, ltRemoved,
                   ltReused, evictDeleteCalls, evictSkipped>>
    /\ UNCHANGED <<pricingVars, launchVars, cloudVars>>

\* DeleteAll: DeleteLaunchTemplate by name, one described name after another.
DeleteAllDelete(name, ok) ==
    /\ name \in deleteAllNames
    /\ deleteAllNames' = deleteAllNames \ {name}
    /\ IF ok /\ name \in DOMAIN cloudTemplates
       THEN /\ cloudTemplates' = MapDelete(cloudTemplates, name)
            /\ ltRemoved' = [ltRemoved EXCEPT ![name] = @ + 1]
       ELSE UNCHANGED <<cloudTemplates, ltRemoved>>
    /\ UNCHANGED <<ltCache, onEvicted, nextTemplateID, ltMu, ltpc, ltTodo,
                   pendingEvictions, ltCalls, ltCreated, ltReused,
                   evictDeleteCalls, evictSkipped>>
    /\ UNCHANGED <<pricingVars, launchVars, cloudVars>>

LTNext ==
    \/ \E w \in LTWorkers, resolved \in ResolvedLists : EnsureAllBegin(w, resolved)
    \/ \E w \in LTWorkers : EnsureLookup(w)
    \/ \E w \in LTWorkers, ok \in BOOLEAN : EnsureDescribe(w, ok)
    \/ \E w \in LTWorkers, ok \in BOOLEAN : EnsureCreate(w, ok)
    \/ \E name \in TemplateNames : ExpireItem(name)
    \/ DeleteExpired
    \/ \E e \in pendingEvictions, ok \in BOOLEAN : EvictedCallback(e, ok)
    \/ \E w \in LTWorkers, name \in TemplateNames : InvalidateBegin(w, name)
    \/ \E w \in LTWorkers : InvalidateDelete(w)
    \/ \E w \in LTWorkers : InvalidateEnd(w)
    \/ DeleteAllDescribe
    \/ \E name \in TemplateNames, ok \in BOOLEAN : DeleteAllDelete(name, ok)

(***************************************************************************)
(* VSWITCHES AND THE LAUNCH PIPELINE                                       *)
(***************************************************************************)
\* The Create calls, each made once.
LaunchWorkers == {"c1", "c2"}
VSwitchIDs == {"vsw-1", "vsw-2", "vsw-3"}
ZoneOf == [v \in VSwitchIDs |-> IF v = "vsw-3" THEN "zb" ELSE "za"]

MaxVSEvents == 2

\* An entry of nodeClass.Status.VSwitches.
StatusVSwitch(id) == [ID |-> id, ZoneID |-> ZoneOf[id]]

\* The nodeClass.Status.VSwitches a Create can be given.
StatusLists ==
    {<<StatusVSwitch("vsw-1"), StatusVSwitch("vsw-2"), StatusVSwitch("vsw-3")>>,
     <<StatusVSwitch("vsw-2"), StatusVSwitch("vsw-1")>>,
     <<>>}

\* cloudprovider.InstanceType: Capacity.Pods and the Offerings, each with its
\* zone and capacity-type requirement and its Available flag.
Offering(zone, capacityType, available) ==
    [zone |-> zone, capacityType |-> capacityType, available |-> available]

SmallType ==
    [name |-> "small", pods |-> 1,
     offerings |-> <<Offering("zb", "on-demand", TRUE), Offering("za", "on-demand", TRUE)>>]

BigType ==
    [name |-> "big", pods |-> 2,
     offerings |-> <<Offering("za", "on-demand", TRUE), Offering("za", "spot", TRUE),
                     Offering("zb", "on-demand", FALSE)>>]

InstanceTypeSets == {{SmallType, BigType}, {BigType}}

\* What DescribeVSwitches can report before it ends: id -> AvailableIpAddressCount.
DescribedVSwitches ==
    {[v \in VSwitchIDs |-> 5],
     [v \in {"vsw-2", "vsw-3"} |-> IF v = "vsw-2" THEN 7 ELSE 4]}

\* A mutex that is never waited for.
VSLockIgnored == TRUE

\* sync.Mutex.Lock of the provider.
VSLockFree == vsMu = NoHolder

\* scheduling.Requirements of a node claim, as far as offerings are concerned:
\* the capacity types and the zones it admits.
Requirements(capacityTypes, zones) == [capacityTypes |-> capacityTypes, zones |-> zones]

\* The requirements of a node claim that constrains the capacity type only.
ClaimRequirements(allowSpot) ==
    Requirements(IF allowSpot THEN {"on-demand", "spot"} ELSE {"on-demand"}, PriceZones)

\* reqs.Compatible(offering.Requirements) = nil: the offering's capacity type
\* and zone are both admitted.
Compatible(reqs, offering) ==
    /\ offering.capacityType \in reqs.capacityTypes
    /\ offering.zone \in reqs.zones

\* it.Offerings.Available().HasCompatible(reqs), reqs being the capacity type
\* and the zone.
HasCompatible(it, capacityType, zone) ==
    \E i \in DOMAIN it.offerings :
        /\ it.offerings[i].available
        /\ it.offerings[i].capacityType = capacityType
        /\ it.offerings[i].zone = zone

\* A minPods that takes the largest pod capacity.
maxPods(instanceTypes, capacityType, zone) ==
    LET filtered == {it \in instanceTypes : HasCompatible(it, capacityType, zone)}
    IN  IF filtered = {} THEN 0
        ELSE CHOOSE n \in {it.pods : it \in filtered} :
                \A it \in filtered : n >= it.pods

\* minPods: the least Capacity.Pods among the instance types with a compatible
\* available offering; 0 when there is none.
minPods(instanceTypes, capacityType, zone) ==
    LET filtered == {it \in instanceTypes : HasCompatible(it, capacityType, zone)}
    IN  IF filtered = {} THEN 0
        ELSE CHOOSE n \in {it.pods : it \in filtered} :
                \A it \in filtered : n <= it.pods

\* getCapacityType that does not look at the availability of the offering.
getCapacityTypeAnySpot(reqs, instanceTypes) ==
    IF "spot" \in reqs.capacityTypes
          /\ \E it \in instanceTypes : \E i \in DOMAIN it.offerings :
                Compatible([reqs EXCEPT !.capacityTypes = {"spot"}], it.offerings[i])
    THEN "spot"
    ELSE "on-demand"

\* getCapacityType: spot when the node claim's requirements allow it and some
\* available offering is compatible with them once the capacity type is set to
\* spot; on-demand otherwise.
getCapacityType(reqs, instanceTypes) ==
    IF "spot" \in reqs.capacityTypes
    THEN LET spotReqs == [reqs EXCEPT !.capacityTypes = {"spot"}]
         IN  IF \E it \in instanceTypes : \E i \in DOMAIN it.offerings :
                    it.offerings[i].available /\ Compatible(spotReqs, it.offerings[i])
             THEN "spot"
             ELSE "on-demand"
    ELSE "on-demand"

\* The loop of ZonalVSwitchesForLaunch comparing the cached counts only.
RECURSIVE zonalVSwitchesLoopCachedOnly(_, _)
zonalVSwitchesLoopCachedOnly(status, zonal) ==
    IF status = <<>> THEN zonal
    ELSE LET vSwitch == Head(status)
             count == MapGet(availableIPAddressCache, vSwitch.ID, 0)
             skip ==
                 /\ vSwitch.ZoneID \in DOMAIN zonal
                 /\ zonal[vSwitch.ZoneID].AvailableIPAddressCount >= count
         IN  zonalVSwitchesLoopCachedOnly(Tail(status),
                IF skip THEN zonal
                ELSE MapSet(zonal, vSwitch.ZoneID,
                        [ID |-> vSwitch.ID, ZoneID |-> vSwitch.ZoneID,
                         AvailableIPAddressCount |-> count]))

\* ZonalVSwitchesForLaunch: the loop that keeps, per zone, the vSwitch with
\* the most IPs, an in-flight count taking the place of the cached count.
RECURSIVE zonalVSwitchesLoop(_, _)
zonalVSwitchesLoop(status, zonal) ==
    IF status = <<>> THEN zonal
    ELSE LET vSwitch == Head(status)
             count == MapGet(availableIPAddressCache, vSwitch.ID, 0)
             skip ==
                 /\ vSwitch.ZoneID \in DOMAIN zonal
                 /\ LET v == MapGet(zonal, vSwitch.ZoneID, [ID |-> "", AvailableIPAddressCount |-> 0])
                    IN  MapGet(inflightIPs, v.ID, v.AvailableIPAddressCount)
                            >= MapGet(inflightIPs, vSwitch.ID, count)
         IN  zonalVSwitchesLoop(Tail(status),
                IF skip THEN zonal
                ELSE MapSet(zonal, vSwitch.ZoneID,
                        [ID |-> vSwitch.ID, ZoneID |-> vSwitch.ZoneID,
                         AvailableIPAddressCount |-> count]))

\* The ids of a zone -> VSwitch map.
ZonalIDs(zonal) == {zonal[z].ID : z \in DOMAIN zonal}

\* getVSwitchID: the vSwitch of the first offering compatible with the
\* requirements whose zone has a vSwitch, or "".
getVSwitchID(it, zonal, reqs) ==
    LET fits == {i \in DOMAIN it.offerings :
                    /\ Compatible(reqs, it.offerings[i])
                    /\ it.offerings[i].zone \in DOMAIN zonal}
    IN  IF fits = {} THEN ""
        ELSE LET first == CHOOSE i \in fits : \A j \in fits : i <= j
             IN  MapGet(zonal, it.offerings[first].zone, [ID |-> ""]).ID

LaunchInit ==
    /\ availableIPAddressCache = EmptyMap
    /\ inflightIPs = EmptyMap
    /\ vswitchListCached = FALSE
    /\ vsMu = NoHolder
    /\ lpc = [w \in LaunchWorkers |-> "idle"]
    /\ lTypes = [w \in LaunchWorkers |-> {}]
    /\ lCT = [w \in LaunchWorkers |-> "on-demand"]
    /\ zonalVSwitches = [w \in LaunchWorkers |-> EmptyMap]
    /\ prevIPs = [w \in LaunchWorkers |-> EmptyMap]
    /\ lRequest = [w \in LaunchWorkers |-> {}]
    /\ lResponse = [w \in LaunchWorkers |-> {}]
    /\ lOutcome = [w \in LaunchWorkers |-> "none"]
    /\ restored = [w \in LaunchWorkers |-> FALSE]
    /\ debitLedger = EmptyMap
    /\ outstandingDebits = [w \in LaunchWorkers |-> EmptyMap]
    /\ vsEvents = 0

\* List: a hit of the selector cache returns it; else every vSwitch described
\* has its count cached and its in-flight entry deleted, and the selector
\* cache is set unless DescribeVSwitches ended in an error.
List(described, ok) ==
    /\ VSLockFree
    /\ vsEvents < MaxVSEvents
    /\ vsEvents' = vsEvents + 1
    /\ IF vswitchListCached
       THEN UNCHANGED <<availableIPAddressCache, inflightIPs, debitLedger,
                       outstandingDebits, vswitchListCached>>
       ELSE /\ availableIPAddressCache' = described @@ availableIPAddressCache
            /\ inflightIPs' = [v \in (DOMAIN inflightIPs) \ (DOMAIN described) |-> inflightIPs[v]]
            /\ debitLedger' = [v \in (DOMAIN debitLedger) \ (DOMAIN described) |-> debitLedger[v]]
            /\ outstandingDebits' =
                  [w \in LaunchWorkers |->
                     [v \in (DOMAIN outstandingDebits[w]) \ (DOMAIN described) |->
                        outstandingDebits[w][v]]]
            /\ vswitchListCached' = ok
    /\ UNCHANGED <<vsMu, lpc, lTypes, lCT, zonalVSwitches, prevIPs, lRequest,
                   lResponse, lOutcome, restored>>
    /\ UNCHANGED <<pricingVars, ltVars, cloudVars>>

\* The TTL of the selector cache runs out.
ExpireVSwitchList ==
    /\ vswitchListCached
    /\ vsEvents < MaxVSEvents
    /\ vsEvents' = vsEvents + 1
    /\ vswitchListCached' = FALSE
    /\ UNCHANGED <<availableIPAddressCache, inflightIPs, vsMu, lpc, lTypes, lCT,
                   zonalVSwitches, prevIPs, lRequest, lResponse, lOutcome,
                   restored, debitLedger, outstandingDebits>>
    /\ UNCHANGED <<pricingVars, ltVars, cloudVars>>

\* The TTL of an item of availableIPAddressCache runs out.
ExpireAvailableIP(id) ==
    /\ id \in DOMAIN availableIPAddressCache
    /\ vsEvents < MaxVSEvents
    /\ vsEvents' = vsEvents + 1
    /\ availableIPAddressCache' = MapDelete(availableIPAddressCache, id)
    /\ UNCHANGED <<inflightIPs, vswitchListCached, vsMu, lpc, lTypes, lCT,
                   zonalVSwitches, prevIPs, lRequest, lResponse, lOutcome,
                   restored, debitLedger, outstandingDebits>>
    /\ UNCHANGED <<pricingVars, ltVars, cloudVars>>

\* The request, the response and the arguments of a launch are dropped.
LaunchForget(w) ==
    /\ lTypes' = [lTypes EXCEPT ![w] = {}]
    /\ lCT' = [lCT EXCEPT ![w] = "on-demand"]
    /\ zonalVSwitches' = [zonalVSwitches EXCEPT ![w] = EmptyMap]
    /\ lRequest' = [lRequest EXCEPT ![w] = {}]
    /\ lResponse' = [lResponse EXCEPT ![w] = {}]

\* Create up to the debit: getCapacityType, and ZonalVSwitchesForLaunch from
\* its Lock to the read of prevIPs. An empty Status.VSwitches is an error
\* before the Lock, returned by Create.
LaunchBegin(w, status, instanceTypes, allowSpot) ==
    /\ lpc[w] = "idle"
    /\ restored' = [restored EXCEPT ![w] = FALSE]
    /\ IF status = <<>>
       THEN /\ lOutcome' = [lOutcome EXCEPT ![w] = "error"]
            /\ LaunchForget(w)
            /\ lpc' = [lpc EXCEPT ![w] = "returned"]
            /\ UNCHANGED <<vsMu, prevIPs>>
       ELSE /\ VSLockFree
            /\ lTypes' = [lTypes EXCEPT ![w] = instanceTypes]
            /\ lCT' = [lCT EXCEPT ![w] = getCapacityType(ClaimRequirements(allowSpot), instanceTypes)]
            /\ lRequest' = [lRequest EXCEPT ![w] = {}]
            /\ lResponse' = [lResponse EXCEPT ![w] = {}]
            /\ vsMu' = w
            /\ lpc' = [lpc EXCEPT ![w] = "debit"]
            /\ lOutcome' = [lOutcome EXCEPT ![w] = "running"]
            /\ LET zonal == zonalVSwitchesLoop(status, EmptyMap)
               IN  /\ zonalVSwitches' = [zonalVSwitches EXCEPT ![w] = zonal]
                   /\ prevIPs' = [prevIPs EXCEPT ![w] =
                         [id \in ZonalIDs(zonal) |->
                            LET vSwitch == CHOOSE v \in {zonal[z] : z \in DOMAIN zonal} : v.ID = id
                            IN  MapGet(inflightIPs, id, vSwitch.AvailableIPAddressCount)]]
    /\ UNCHANGED <<availableIPAddressCache, inflightIPs, vswitchListCached,
                   debitLedger, outstandingDebits, vsEvents>>
    /\ UNCHANGED <<pricingVars, ltVars, cloudVars>>

\* ZonalVSwitchesForLaunch: p.inflightIPs[vSwitch.ID] = prevIPs - predictedIPsUsed
\* for each chosen vSwitch, and the deferred Unlock.
ZonalDebit(w) ==
    /\ lpc[w] = "debit"
    /\ LET chosen == ZonalIDs(zonalVSwitches[w])
           predictedIPsUsed(id) == minPods(lTypes[w], lCT[w], ZoneOf[id])
       IN  /\ inflightIPs' =
                 [id \in (DOMAIN inflightIPs) \cup chosen |->
                    IF id \in chosen
                    THEN MapGet(prevIPs[w], id, 0) - predictedIPsUsed(id)
                    ELSE MapGet(inflightIPs, id, 0)]
           /\ debitLedger' =
                 [id \in (DOMAIN debitLedger) \cup chosen |->
                    IF id \in chosen
                    THEN MapGet(debitLedger, id, MapGet(prevIPs[w], id, 0)) - predictedIPsUsed(id)
                    ELSE MapGet(debitLedger, id, 0)]
           /\ outstandingDebits' =
                 [outstandingDebits EXCEPT ![w] = [id \in chosen |-> predictedIPsUsed(id)]]
    /\ vsMu' = NoHolder
    /\ lpc' = [lpc EXCEPT ![w] = "group"]
    /\ prevIPs' = [prevIPs EXCEPT ![w] = EmptyMap]
    /\ UNCHANGED <<availableIPAddressCache, vswitchListCached, lTypes, lCT,
                   zonalVSwitches, lRequest, lResponse, lOutcome,
                   restored, vsEvents>>
    /\ UNCHANGED <<pricingVars, ltVars, cloudVars>>

\* The rest of Create: getProvisioningGroup (an error of EnsureAll, or a type
\* without vSwitch, ends the Create), CreateAutoProvisioningGroup, and the
\* return. Nothing is given back to the vSwitch provider.
LaunchSubmit(w, templatesOk, apiOk, used) ==
    /\ lpc[w] = "group"
    /\ lpc' = [lpc EXCEPT ![w] = "returned"]
    /\ LET request == {getVSwitchID(it, zonalVSwitches[w], Requirements({lCT[w]}, PriceZones)) : it \in lTypes[w]}
       IN  IF ~templatesOk \/ "" \in request
           THEN /\ lOutcome' = [lOutcome EXCEPT ![w] = "error"]
                /\ LaunchForget(w)
           ELSE /\ lRequest' = [lRequest EXCEPT ![w] = request]
                /\ UNCHANGED <<lTypes, lCT, zonalVSwitches>>
                /\ IF apiOk
                   THEN /\ used \in request
                        /\ lResponse' = [lResponse EXCEPT ![w] = {used}]
                        /\ lOutcome' = [lOutcome EXCEPT ![w] = "launched"]
                   ELSE /\ lResponse' = lResponse
                        /\ lOutcome' = [lOutcome EXCEPT ![w] = "failed"]
    /\ UNCHANGED <<availableIPAddressCache, inflightIPs, vswitchListCached, vsMu,
                   prevIPs, restored, debitLedger, outstandingDebits, vsEvents>>
    /\ UNCHANGED <<pricingVars, ltVars, cloudVars>>

\* An UpdateInflightIPs that gives back to every requested and unused vSwitch
\* that is tracked.
AddBackUnused(request, response, vSwitches) ==
    {id \in DOMAIN inflightIPs : id \in request \ response}

\* UpdateInflightIPs: which of the requested and unused vSwitches get their
\* predicted IPs back: the cached ones found among vSwitches whose cached count
\* equals the count of the launch and whose in-flight entry is tracked.
AddBackIDs(request, response, vSwitches) ==
    {id \in DOMAIN availableIPAddressCache :
        /\ id \in request \ response
        /\ \E v \in vSwitches :
              /\ v.ID = id
              /\ v.AvailableIPAddressCount = availableIPAddressCache[id]
        /\ id \in DOMAIN inflightIPs}

\* UpdateInflightIPs, called with the request, the response, the instance
\* types, the zonal vSwitches and the capacity type of a submitted launch.
UpdateInflightIPs(w) ==
    /\ VSLockFree
    /\ lpc[w] = "returned"
    /\ lOutcome[w] \in {"launched", "failed"}
    /\ ~restored[w]
    /\ restored' = [restored EXCEPT ![w] = TRUE]
    /\ outstandingDebits' = [outstandingDebits EXCEPT ![w] = EmptyMap]
    /\ LET vSwitches == {zonalVSwitches[w][z] : z \in DOMAIN zonalVSwitches[w]}
           back == AddBackIDs(lRequest[w], lResponse[w], vSwitches)
       IN  /\ inflightIPs' =
                 [id \in DOMAIN inflightIPs |->
                    IF id \in back
                    THEN inflightIPs[id] + minPods(lTypes[w], lCT[w], ZoneOf[id])
                    ELSE inflightIPs[id]]
           /\ debitLedger' =
                 [id \in DOMAIN debitLedger |->
                    IF id \in back
                    THEN debitLedger[id] + minPods(lTypes[w], lCT[w], ZoneOf[id])
                    ELSE debitLedger[id]]
    /\ UNCHANGED <<availableIPAddressCache, vswitchListCached, vsMu, lpc, lTypes,
                   lCT, zonalVSwitches, prevIPs, lRequest, lResponse, lOutcome,
                   vsEvents>>
    /\ UNCHANGED <<pricingVars, ltVars, cloudVars>>

LaunchNext ==
    \/ \E described \in DescribedVSwitches, ok \in BOOLEAN : List(described, ok)
    \/ ExpireVSwitchList
    \/ \E id \in VSwitchIDs : ExpireAvailableIP(id)
    \/ \E w \in LaunchWorkers, status \in StatusLists, instanceTypes \in InstanceTypeSets,
          allowSpot \in BOOLEAN : LaunchBegin(w, status, instanceTypes, allowSpot)
    \/ \E w \in LaunchWorkers : ZonalDebit(w)
    \/ \E w \in LaunchWorkers, templatesOk \in BOOLEAN, apiOk \in BOOLEAN,
          used \in VSwitchIDs : LaunchSubmit(w, templatesOk, apiOk, used)
    \/ \E w \in LaunchWorkers : UpdateInflightIPs(w)

(***************************************************************************)
(* DRIFT                                                                   *)
(***************************************************************************)
VSwitchDrift == "VSwitchDrift"
SecurityGroupDrift == "SecurityGroupDrift"
NodeClassDrift == "NodeClassDrift"

AnnotationECSNodeClassHash == "ecsnodeclass-hash"
AnnotationECSNodeClassHashVersion == "ecsnodeclass-hash-version"
AnnotationKeys == {AnnotationECSNodeClassHash, AnnotationECSNodeClassHashVersion}

\* Annotation maps: any subset of the two keys, each with one of two values.
AnnotationMaps == UNION {[S -> {"1", "2"}] : S \in SUBSET AnnotationKeys}

SecurityGroupIDs == {"sgA", "sgB"}

\* nodeClass.Status.SecurityGroups, by id, in status order.
StatusSecurityGroupLists == {<<>>, <<"sgA">>, <<"sgA", "sgB">>, <<"sgB", "sgA">>}

\* Instance.SecurityGroupIDs as DescribeInstances lists them.
InstanceSecurityGroupLists == {<<"sgA">>, <<"sgB">>, <<"sgB", "sgA">>, <<"sgA", "sgA">>}

\* nodeClass.Status.VSwitches, by id, in status order.
StatusVSwitchLists == {<<>>, <<"vsw-1">>, <<"vsw-1", "vsw-2">>}

\* Where the lookups of IsDrifted stop: the NodeClaim has no nodepool label, the
\* NodePool or the NodeClass is not found or its Get fails, the NodePool has no
\* NodeClassRef, the instance cannot be fetched; or all of them succeed.
DriftLookups == {"ok", "noNodePoolLabel", "nodePoolNotFound", "nodePoolError",
                 "noNodeClassRef", "nodeClassNotFound", "nodeClassError",
                 "instanceError"}

NoDriftResult == [reason |-> "none", err |-> "none"]

\* A (DriftReason, error) pair; err = "" is the nil error.
DriftReturn(reason, err) == [reason |-> reason, err |-> err]

\* The set of elements of a slice: sets.New(s...)
SetOf(s) == {s[i] : i \in 1..Len(s)}

areStaticFieldsDriftedAnyVersion(claim, class) ==
    IF AnnotationKeys \subseteq (DOMAIN class.annotations \cap DOMAIN claim.annotations)
       /\ class.annotations[AnnotationECSNodeClassHash]
              # claim.annotations[AnnotationECSNodeClassHash]
    THEN NodeClassDrift
    ELSE ""

areStaticFieldsDrifted(claim, class) ==
    LET foundNodeClassHash == AnnotationECSNodeClassHash \in DOMAIN class.annotations
        foundNodeClassHashVersion ==
            AnnotationECSNodeClassHashVersion \in DOMAIN class.annotations
        foundNodeClaimHash == AnnotationECSNodeClassHash \in DOMAIN claim.annotations
        foundNodeClaimHashVersion ==
            AnnotationECSNodeClassHashVersion \in DOMAIN claim.annotations
    IN  IF ~foundNodeClassHash \/ ~foundNodeClaimHash
           \/ ~foundNodeClassHashVersion \/ ~foundNodeClaimHashVersion
        THEN ""
        ELSE IF class.annotations[AnnotationECSNodeClassHashVersion]
                    # claim.annotations[AnnotationECSNodeClassHashVersion]
        THEN ""
        ELSE IF class.annotations[AnnotationECSNodeClassHash]
                    # claim.annotations[AnnotationECSNodeClassHash]
        THEN NodeClassDrift
        ELSE ""

areSecurityGroupsDriftedNoStatusCheck(inst, class) ==
    IF SetOf(class.securityGroups) # SetOf(inst.securityGroupIDs)
    THEN DriftReturn(SecurityGroupDrift, "")
    ELSE DriftReturn("", "")

areSecurityGroupsDriftedInOrder(inst, class) ==
    IF Len(class.securityGroups) = 0
    THEN DriftReturn("", "no security groups are present in the status")
    ELSE IF class.securityGroups # inst.securityGroupIDs
    THEN DriftReturn(SecurityGroupDrift, "")
    ELSE DriftReturn("", "")

areSecurityGroupsDrifted(inst, class) ==
    LET securityGroupIds == SetOf(class.securityGroups)
    IN  IF Cardinality(securityGroupIds) = 0
        THEN DriftReturn("", "no security groups are present in the status")
        ELSE IF securityGroupIds # SetOf(inst.securityGroupIDs)
        THEN DriftReturn(SecurityGroupDrift, "")
        ELSE DriftReturn("", "")

isVSwitchDriftedFirstOnly(inst, class) ==
    IF Len(class.vSwitches) = 0
    THEN DriftReturn("", "no vswitches are discovered")
    ELSE IF class.vSwitches[1] # inst.vSwitchID
    THEN DriftReturn(VSwitchDrift, "")
    ELSE DriftReturn("", "")

isVSwitchDrifted(inst, class) ==
    IF Len(class.vSwitches) = 0
    THEN DriftReturn("", "no vswitches are discovered")
    ELSE IF ~(\E i \in 1..Len(class.vSwitches) : class.vSwitches[i] = inst.vSwitchID)
    THEN DriftReturn(VSwitchDrift, "")
    ELSE DriftReturn("", "")

isNodeClassDriftedVSwitchFirst(claim, class, inst, lookup) ==
    LET static == areStaticFieldsDrifted(claim, class)
        securitygroupDrifted == areSecurityGroupsDrifted(inst, class)
        vSwitchDrifted == isVSwitchDrifted(inst, class)
    IN  IF static # ""
        THEN DriftReturn(static, "")
        ELSE IF lookup = "instanceError"
        THEN DriftReturn("", "getting instance")
        ELSE IF securitygroupDrifted.err # ""
        THEN DriftReturn("", "calculating securitygroup drift")
        ELSE IF vSwitchDrifted.err # ""
        THEN DriftReturn("", "calculating vSwitch drift")
        ELSE IF vSwitchDrifted.reason # ""
        THEN DriftReturn(vSwitchDrifted.reason, "")
        ELSE DriftReturn(securitygroupDrifted.reason, "")

isNodeClassDrifted(claim, class, inst, lookup) ==
    LET static == areStaticFieldsDrifted(claim, class)
        securitygroupDrifted == areSecurityGroupsDrifted(inst, class)
        vSwitchDrifted == isVSwitchDrifted(inst, class)
    IN  IF static # ""
        THEN DriftReturn(static, "")
        ELSE IF lookup = "instanceError"
        THEN DriftReturn("", "getting instance")
        ELSE IF securitygroupDrifted.err # ""
        THEN DriftReturn("", "calculating securitygroup drift")
        ELSE IF vSwitchDrifted.err # ""
        THEN DriftReturn("", "calculating vSwitch drift")
        ELSE IF securitygroupDrifted.reason # ""
        THEN DriftReturn(securitygroupDrifted.reason, "")
        ELSE DriftReturn(vSwitchDrifted.reason, "")

\* CloudProvider.IsDrifted as a function of what it reads.
IsDriftedReturn(claim, class, inst, lookup) ==
    IF lookup \in {"noNodePoolLabel", "nodePoolNotFound", "noNodeClassRef",
                   "nodeClassNotFound"}
    THEN DriftReturn("", "")
    ELSE IF lookup = "nodePoolError"
    THEN DriftReturn("", "getting nodepool")
    ELSE IF lookup = "nodeClassError"
    THEN DriftReturn("", "resolving node class")
    ELSE isNodeClassDrifted(claim, class, inst, lookup)

DriftInit ==
    /\ nodeClaim \in [annotations : AnnotationMaps]
    /\ nodeClass \in [annotations : AnnotationMaps,
                      securityGroups : StatusSecurityGroupLists,
                      vSwitches : StatusVSwitchLists]
    /\ ecsInstance \in [securityGroupIDs : InstanceSecurityGroupLists,
                        vSwitchID : VSwitchIDs]
    /\ driftLookup \in DriftLookups
    /\ driftResult = NoDriftResult

IsDrifted ==
    /\ driftResult = NoDriftResult
    /\ driftResult' = IsDriftedReturn(nodeClaim, nodeClass, ecsInstance, driftLookup)
    /\ UNCHANGED <<nodeClaim, nodeClass, ecsInstance, driftLookup>>
    /\ UNCHANGED <<pricingVars, ltVars, launchVars, facadeVars, listVars, requestVars, statusVars, filterVars, typesVars>>

DriftNext ==
    \/ IsDrifted

(***************************************************************************)
(* CLOUD PROVIDER: Create and Delete                                       *)
(***************************************************************************)
MaxInstances == 2
InstanceIDs == 1..MaxInstances

CapacityTypes == <<"on-demand", "spot">>

\* What DescribeAvailableResource can have reported: the zones each instance
\* type is sold in.
OfferedZones ==
    {[t \in InstanceTypeNames |-> IF t = "t1" THEN {"za", "zb"} ELSE {"za"}],
     [t \in InstanceTypeNames |-> IF t = "t1" THEN {"zb"} ELSE {}]}

\* The zones of nodeClass.Status.VSwitches, in the order createOfferings
\* visits them, and the vSwitch ZonalVSwitchesForLaunch keeps for each.
OfferingZones == <<"za", "zb">>
FacadeZonal == [z \in {"za", "zb"} |-> [ID |-> IF z = "za" THEN "vsw-1" ELSE "vsw-3"]]

\* UnavailableOfferings.IsUnavailable
IsUnavailable(unavailable, instanceType, zone, capacityType) ==
    <<instanceType, zone, capacityType>> \in unavailable

\* createOfferings that walks the vSwitches of the NodeClass, two of them in
\* zone za, instead of the set of zones.
createOfferingsPerVSwitch(unavailable, offered, instanceType) ==
    LET vSwitchZones == <<"za", "zb", "za">>
    IN  [i \in 1..(Len(vSwitchZones) * Len(CapacityTypes)) |->
            LET zone == vSwitchZones[((i - 1) \div Len(CapacityTypes)) + 1]
                capacityType == CapacityTypes[((i - 1) % Len(CapacityTypes)) + 1]
            IN  Offering(zone, capacityType,
                         /\ ~IsUnavailable(unavailable, instanceType, zone, capacityType)
                         /\ zone \in offered[instanceType])]

\* createOfferings: one offering per zone and capacity type (every type has
\* both prices, every zone a vSwitch), available when the offering is not in
\* the unavailable-offerings cache and the type is sold in the zone.
createOfferings(unavailable, offered, instanceType) ==
    [i \in 1..(Len(OfferingZones) * Len(CapacityTypes)) |->
        LET zone == OfferingZones[((i - 1) \div Len(CapacityTypes)) + 1]
            capacityType == CapacityTypes[((i - 1) % Len(CapacityTypes)) + 1]
        IN  Offering(zone, capacityType,
                     /\ ~IsUnavailable(unavailable, instanceType, zone, capacityType)
                     /\ zone \in offered[instanceType])]

\* instancetype DefaultProvider.List
ListInstanceTypes(unavailable, offered) ==
    {[name |-> t, pods |-> 1, offerings |-> createOfferings(unavailable, offered, t)] :
        t \in InstanceTypeNames}

\* The capacity types the requirements of a NodeClaim admit.
ClaimCapacityTypes(allowSpot) == IF allowSpot THEN {"on-demand", "spot"} ELSE {"on-demand"}

\* resolveInstanceTypes: the listed types the NodeClaim's requirements admit
\* that have an available offering the requirements admit.
resolveInstanceTypes(listed, allowed, allowSpot) ==
    {it \in listed :
        /\ it.name \in allowed
        /\ \E i \in DOMAIN it.offerings :
              /\ it.offerings[i].available
              /\ it.offerings[i].capacityType \in ClaimCapacityTypes(allowSpot)}

\* The offering whose vSwitch getVSwitchID returns for an instance type.
LaunchOffering(it, zonal, capacityType) ==
    LET fits == {i \in DOMAIN it.offerings :
                    /\ it.offerings[i].capacityType = capacityType
                    /\ it.offerings[i].zone \in DOMAIN zonal}
        first == CHOOSE i \in fits : \A j \in fits : i <= j
    IN  <<it.name, it.offerings[first].zone, capacityType>>

\* The (type, zone, capacity type) of the launch-template configs of the
\* provisioning-group request.
RequestedOfferings(instanceTypes, capacityType) ==
    {LaunchOffering(it, FacadeZonal, capacityType) : it \in instanceTypes}

\* How the steps of the instance provider's Create can end: the vSwitch
\* lookup or launch-template resolution fails, no launch template comes back,
\* CreateAutoProvisioningGroup fails, answers with no launch result, answers
\* with a launch result without instance ids (the request was refused),
\* launches an instance that DescribeInstances then fails to return, or
\* launches an instance.
LaunchOutcomes == {"vSwitchError", "templateError", "noTemplates", "apiError",
                   "emptyLaunchResult", "refused", "describeError", "launched"}

\* The outcomes in which the provisioning-group request was sent.
SubmittedOutcomes == {"apiError", "emptyLaunchResult", "refused", "describeError",
                      "launched"}

NoCall == [result |-> "none"]

\* Create with a readiness test that lets every NodeClass through.
createReturnReadinessIgnored(resolve, ready, listOk, instanceTypes, launch) ==
    IF resolve # "found" THEN "InsufficientCapacityError"
    ELSE IF ~listOk THEN "error"
    ELSE IF instanceTypes = {} THEN "InsufficientCapacityError"
    ELSE IF launch = "launched" THEN "NodeClaim"
    ELSE IF launch \in {"emptyLaunchResult", "refused"} THEN "panic"
    ELSE "error"

\* What CloudProvider.Create returns: "NodeClaim", one of the typed errors,
\* "error" for any other error, "panic" when it indexes an empty slice.
createReturn(resolve, ready, listOk, instanceTypes, launch) ==
    IF resolve # "found" THEN "InsufficientCapacityError"
    ELSE IF ready = "False" THEN "NodeClassNotReadyError"
    ELSE IF ready = "Unknown" THEN "error"
    ELSE IF ~listOk THEN "error"
    ELSE IF instanceTypes = {} THEN "InsufficientCapacityError"
    ELSE IF launch = "launched" THEN "NodeClaim"
    ELSE IF launch \in {"emptyLaunchResult", "refused"} THEN "panic"
    ELSE "error"

\* The step of Create that returns: "resolve", "ready", "list", "filter" or
\* "launch".
createStage(resolve, ready, listOk, instanceTypes) ==
    IF resolve # "found" THEN "resolve"
    ELSE IF ready # "True" THEN "ready"
    ELSE IF ~listOk THEN "list"
    ELSE IF instanceTypes = {} THEN "filter"
    ELSE "launch"

alwaysFalse(statusCode) == FALSE

\* alierrors.IsNotFound of an SDK error with the given status code.
IsNotFound(statusCode) == statusCode = 404

\* What DeleteInstance answers: no error (status 0), or an SDK error with its
\* status code.
DeleteInstanceStatus(id, instances, fault) ==
    IF fault # 0 THEN fault
    ELSE IF id \in instances THEN 0
    ELSE 404

\* instance DefaultProvider.Get: nil, or an error that is never a
\* NodeClaimNotFoundError.
GetReturn(id, instances, describeOk) ==
    IF ~describeOk THEN "error"
    ELSE IF id \in instances THEN "nil"
    ELSE "error"

\* cloudprovider.IsNodeClaimNotFoundError
IsNodeClaimNotFoundError(e) == e = "NodeClaimNotFoundError"

\* instance DefaultProvider.Delete
deleteReturn(id, instances, fault, describeOk) ==
    LET status == DeleteInstanceStatus(id, instances, fault)
        e == GetReturn(id, instances, describeOk)
    IN  IF status = 0 THEN "nil"
        ELSE IF IsNotFound(status) THEN "NodeClaimNotFoundError"
        ELSE IF e # "nil" /\ IsNodeClaimNotFoundError(e) THEN e
        ELSE "error"

FacadeInit ==
    /\ instanceTypeOfferings \in OfferedZones
    /\ unavailableOfferings = {}
    /\ ecsInstances = {}
    /\ nextInstanceID = 1
    /\ createCall = NoCall
    /\ deleteCall = NoCall
    /\ getCall = NoCall

\* CloudProvider.Create of a NodeClaim whose requirements admit the instance
\* types in allowed and, if allowSpot, spot capacity.
Create(resolve, ready, listOk, allowed, allowSpot, launch) ==
    LET listed == ListInstanceTypes(unavailableOfferings, instanceTypeOfferings)
        instanceTypes == resolveInstanceTypes(listed, allowed, allowSpot)
        stage == createStage(resolve, ready, listOk, instanceTypes)
        capacityType == getCapacityType(ClaimRequirements(allowSpot), instanceTypes)
        submitted == stage = "launch" /\ launch \in SubmittedOutcomes
        requested == IF submitted THEN RequestedOfferings(instanceTypes, capacityType)
                     ELSE {}
        launched == stage = "launch" /\ launch \in {"describeError", "launched"}
    IN  /\ nextInstanceID <= MaxInstances
        /\ createCall' =
              [result |-> createReturn(resolve, ready, listOk, instanceTypes, launch),
               stage |-> stage,
               ready |-> IF resolve = "found" THEN ready ELSE "none",
               instanceTypes |-> IF stage \in {"filter", "launch"}
                                 THEN {it.name : it \in instanceTypes} ELSE {},
               launch |-> IF stage = "launch" THEN launch ELSE "none",
               requested |-> requested]
        /\ ecsInstances' = IF launched THEN ecsInstances \cup {nextInstanceID}
                           ELSE ecsInstances
        /\ nextInstanceID' = IF launched THEN nextInstanceID + 1 ELSE nextInstanceID
        /\ UNCHANGED <<instanceTypeOfferings, unavailableOfferings, deleteCall, getCall>>
        /\ UNCHANGED <<pricingVars, ltVars, launchVars, driftVars, listVars, requestVars, statusVars, filterVars, typesVars>>

\* CloudProvider.Delete of a NodeClaim whose provider id names instance id;
\* fault is the status of a failure of DeleteInstance that is not the cloud's
\* answer about the instance (0: none).
Delete(id, parseOk, fault, describeOk) ==
    LET status == DeleteInstanceStatus(id, ecsInstances, fault)
    IN  /\ deleteCall' =
              IF ~parseOk THEN [result |-> "error", status |-> 0, existed |-> id \in ecsInstances]
              ELSE [result |-> deleteReturn(id, ecsInstances, fault, describeOk),
                    status |-> status, existed |-> id \in ecsInstances]
        /\ ecsInstances' = IF parseOk /\ status = 0 THEN ecsInstances \ {id}
                           ELSE ecsInstances
        /\ UNCHANGED <<instanceTypeOfferings, unavailableOfferings, nextInstanceID,
                       createCall, getCall>>
        /\ UNCHANGED <<pricingVars, ltVars, launchVars, driftVars, listVars, requestVars, statusVars, filterVars, typesVars>>

\* What CloudProvider.Get returns: "NodeClaim", or the error of the provider
\* id parse, of the instance provider's Get, or of the instance-type and
\* NodeClass resolution.
cloudGetReturn(id, instances, parseOk, describeOk, resolveOk) ==
    IF ~parseOk THEN "error"
    ELSE IF GetReturn(id, instances, describeOk) # "nil"
    THEN GetReturn(id, instances, describeOk)
    ELSE IF ~resolveOk THEN "error"
    ELSE "NodeClaim"

\* CloudProvider.Get of the provider id that names instance id.
Get(id, parseOk, describeOk, resolveOk) ==
    /\ getCall' = [result |-> cloudGetReturn(id, ecsInstances, parseOk, describeOk, resolveOk),
                   described |-> parseOk /\ describeOk,
                   existed |-> id \in ecsInstances]
    /\ UNCHANGED <<instanceTypeOfferings, unavailableOfferings, ecsInstances,
                   nextInstanceID, createCall, deleteCall>>
    /\ UNCHANGED <<pricingVars, ltVars, launchVars, driftVars, listVars, requestVars, statusVars, filterVars, typesVars>>

\* The inputs of a Create. An input the call does not get to read (the
\* readiness of a NodeClass that is not found, the launch outcome of a call
\* that is not ready, ...) takes one value only.
CreateInputs ==
    {in \in [resolve : {"found", "notFound", "error"},
             ready : {"True", "False", "Unknown"},
             listOk : BOOLEAN,
             allowed : (SUBSET InstanceTypeNames) \ {{}},
             allowSpot : BOOLEAN,
             launch : LaunchOutcomes] :
        /\ in.resolve # "found" => in.ready = "True"
        /\ (in.resolve # "found" \/ in.ready # "True") => in.listOk
        /\ (in.resolve # "found" \/ in.ready # "True" \/ ~in.listOk)
               => (in.allowed = InstanceTypeNames /\ in.allowSpot /\ in.launch = "launched")}

FacadeNext ==
    \/ \E in \in CreateInputs :
            Create(in.resolve, in.ready, in.listOk, in.allowed, in.allowSpot, in.launch)
    \/ \E id \in InstanceIDs, parseOk \in BOOLEAN, fault \in {0, 500},
          describeOk \in BOOLEAN : Delete(id, parseOk, fault, describeOk)
    \/ \E id \in InstanceIDs, parseOk \in BOOLEAN, describeOk \in BOOLEAN,
          resolveOk \in BOOLEAN : Get(id, parseOk, describeOk, resolveOk)

(***************************************************************************)
(* CLOUD PROVIDER: List                                                    *)
(***************************************************************************)
MaxTagged == 3
TaggedIDs == 1..MaxTagged

\* The page of DescribeInstances a token asks for: the instances in id order,
\* pageSize to a page, and the token of the next page, 0 (the empty string)
\* on the last page.
DescribeInstancesPage(tagged, size, token) ==
    LET rank(id) == Cardinality({j \in tagged : j <= id})
        page == {id \in tagged : rank(id) > token * size /\ rank(id) <= (token + 1) * size}
        more == Cardinality(tagged) > (token + 1) * size
    IN  [Instance |-> page, NextToken |-> IF more THEN token + 1 ELSE 0]

\* The test that ends the loop of List before the page is read (a call that
\* succeeds answers with a body and an instance list).
listBreaks(resp) == resp.NextToken = 0 \/ resp.Instance = {}

ListInit ==
    /\ taggedInstances \in SUBSET TaggedIDs
    /\ pageSize \in {1, 2}
    /\ listpc = "idle"
    /\ requestToken = 0
    /\ listedInstances = {}
    /\ listOutcome = "none"
    /\ ctxCancelled = FALSE
    /\ pagesAfterCancel = 0

\* CloudProvider.List enters the instance provider's List.
ListBegin ==
    /\ listpc = "idle"
    /\ listpc' = "describe"
    /\ UNCHANGED <<taggedInstances, pageSize, requestToken, listedInstances, listOutcome,
                   ctxCancelled, pagesAfterCancel>>
    /\ UNCHANGED <<pricingVars, ltVars, launchVars, driftVars, facadeVars, requestVars, statusVars, filterVars, typesVars>>

\* One pass of the loop of the instance provider's List: the page request,
\* which fails (answer "error") or answers with a page ("page"), and what the
\* loop does with the answer.
ListDescribe(answer) ==
    LET resp == DescribeInstancesPage(taggedInstances, pageSize, requestToken)
    IN  /\ listpc = "describe"
        /\ pagesAfterCancel' = IF ctxCancelled /\ requestToken # 0
                               THEN pagesAfterCancel + 1
                               ELSE pagesAfterCancel
        /\ IF answer = "error"
           THEN /\ listpc' = "returned"
                /\ listOutcome' = "error"
                /\ UNCHANGED <<requestToken, listedInstances>>
           ELSE IF listBreaks(resp)
           THEN /\ listpc' = "convert"
                /\ UNCHANGED <<requestToken, listedInstances, listOutcome>>
           ELSE /\ requestToken' = resp.NextToken
                /\ listedInstances' = listedInstances \cup resp.Instance
                /\ UNCHANGED <<listpc, listOutcome>>
        /\ UNCHANGED <<taggedInstances, pageSize, ctxCancelled>>
        /\ UNCHANGED <<pricingVars, ltVars, launchVars, driftVars, facadeVars, requestVars, statusVars, filterVars, typesVars>>

\* CloudProvider.List turns the instances into NodeClaims and returns them,
\* or the error of an instance-type or NodeClass resolution.
ListConvert(resolveOk) ==
    /\ listpc = "convert"
    /\ listpc' = "returned"
    /\ listOutcome' = IF resolveOk \/ listedInstances = {} THEN "ok" ELSE "error"
    /\ UNCHANGED <<taggedInstances, pageSize, requestToken, listedInstances, ctxCancelled,
                   pagesAfterCancel>>
    /\ UNCHANGED <<pricingVars, ltVars, launchVars, driftVars, facadeVars, requestVars, statusVars, filterVars, typesVars>>

\* The caller cancels the context of a List that has not returned.
ListCancel ==
    /\ ~ctxCancelled
    /\ listpc # "returned"
    /\ ctxCancelled' = TRUE
    /\ UNCHANGED <<taggedInstances, pageSize, listpc, requestToken, listedInstances,
                   listOutcome, pagesAfterCancel>>
    /\ UNCHANGED <<pricingVars, ltVars, launchVars, driftVars, facadeVars, requestVars, statusVars, filterVars, typesVars>>

ListNext ==
    \/ ListBegin
    \/ \E answer \in {"page", "error"} : ListDescribe(answer)
    \/ \E resolveOk \in BOOLEAN : ListConvert(resolveOk)
    \/ ListCancel

(***************************************************************************)
(* INSTANCE PROVIDER: the auto-provisioning request of a launch            *)
(***************************************************************************)
instanceTypeFlexibilityThreshold == 5

\* options.FromContext(ctx).ClusterName, the node pool label of the node claim
\* and the name of the NodeClass.
ClusterName == "c1"
NodePoolName == "np1"
NodeClassName == "nc1"

\* lo.Assign: the later map wins on a shared key.
Assign(first, second) ==
    [k \in (DOMAIN first) \cup (DOMAIN second) |->
        IF k \in DOMAIN second THEN second[k] ELSE first[k]]

\* The staticTags of getTags.
staticTags ==
    [k \in {"kubernetes.io/cluster/c1", "NodePoolLabelKey", "ECSClusterNameTagKey",
            "LabelNodeClass"} |->
        CASE k = "kubernetes.io/cluster/c1" -> "owned"
          [] k = "NodePoolLabelKey" -> NodePoolName
          [] k = "ECSClusterNameTagKey" -> ClusterName
          [] OTHER -> NodeClassName]

getTags(tags) == Assign(tags, staticTags)

\* spec.tags of a NodeClass: none, a tag of its own, and one that names a
\* key of the static tags.
NodeClassTagMaps ==
    {EmptyMap,
     [k \in {"team"} |-> "x"],
     [k \in {"team", "LabelNodeClass"} |-> IF k = "team" THEN "x" ELSE "other"]}

\* Candidate instance types of a launch.
SpotTypeA ==
    [name |-> "a", pods |-> 1,
     offerings |-> <<Offering("za", "on-demand", TRUE), Offering("za", "spot", TRUE)>>]

SpotTypeB ==
    [name |-> "c", pods |-> 1,
     offerings |-> <<Offering("zb", "spot", TRUE), Offering("zb", "on-demand", TRUE)>>]

StaleSpotType ==
    [name |-> "s", pods |-> 1,
     offerings |-> <<Offering("za", "spot", FALSE), Offering("za", "on-demand", TRUE)>>]

ZoneBType ==
    [name |-> "b", pods |-> 1, offerings |-> <<Offering("zb", "on-demand", TRUE)>>]

OnDemandType(name) ==
    [name |-> name, pods |-> 1, offerings |-> <<Offering("za", "on-demand", TRUE)>>]

CandidateLists ==
    {<<SpotTypeA>>, <<StaleSpotType>>, <<SpotTypeA, ZoneBType>>, <<ZoneBType, SpotTypeA>>,
     <<SpotTypeA, SpotTypeB>>, <<StaleSpotType, ZoneBType>>,
     <<StaleSpotType, OnDemandType("e"), OnDemandType("f"), OnDemandType("g")>>,
     <<StaleSpotType, OnDemandType("e"), OnDemandType("f"), OnDemandType("g"),
       OnDemandType("h")>>}

ClaimRequirementSets ==
    {Requirements(c, z) : c \in {{"on-demand"}, {"on-demand", "spot"}, {"spot"}},
                          z \in {{"za"}, {"zb"}, {"za", "zb"}}}

ZonalVSwitchMaps ==
    {EmptyMap,
     [z \in {"za"} |-> [ID |-> "vsw-1"]],
     [z \in {"za", "zb"} |-> [ID |-> IF z = "za" THEN "vsw-1" ELSE "vsw-2"]]}

Range(seq) == {seq[i] : i \in DOMAIN seq}

\* checkODFallback that never warns.
checkODFallbackSilent(reqs, instanceTypes) == FALSE

\* checkODFallback: TRUE when it returns the flexibility error.
checkODFallback(reqs, instanceTypes) ==
    IF getCapacityType(reqs, Range(instanceTypes)) # "on-demand" \/ "spot" \notin reqs.capacityTypes
    THEN FALSE
    ELSE Len(instanceTypes) < instanceTypeFlexibilityThreshold

\* The loop of getProvisioningGroup over launchtemplate.InstanceTypes: the
\* configs appended so far, and whether a type without a vSwitch ended it.
RECURSIVE launchTemplateConfigsLoop(_, _, _, _)
launchTemplateConfigsLoop(instanceTypes, zonal, reqs, configs) ==
    IF instanceTypes = <<>> THEN [configs |-> configs, err |-> ""]
    ELSE LET vSwitchID == getVSwitchID(Head(instanceTypes), zonal, reqs)
         IN  IF vSwitchID = ""
             THEN [configs |-> <<>>, err |-> "vSwitchID not found"]
             ELSE launchTemplateConfigsLoop(Tail(instanceTypes), zonal, reqs,
                     Append(configs, [InstanceType |-> Head(instanceTypes).name,
                                      VSwitchId |-> vSwitchID]))

NoRequest == [LaunchTemplateConfig |-> <<>>]

\* getProvisioningGroup: the request, or the error. ensure is what EnsureAll
\* answered: "ok" (one launch template holding the instance types), "none" or
\* "error". The requirements carry the chosen capacity type.
getProvisioningGroup(reqs, instanceTypes, zonal, capacityType, tags, ensure) ==
    IF ensure = "error" THEN [request |-> NoRequest, err |-> "getting launch templates"]
    ELSE IF ensure = "none" THEN [request |-> NoRequest, err |-> "no launch templates"]
    ELSE LET requirements == [reqs EXCEPT !.capacityTypes = {capacityType}]
             loop == launchTemplateConfigsLoop(instanceTypes, zonal, requirements, <<>>)
         IN  IF loop.err # "" THEN [request |-> NoRequest, err |-> loop.err]
             ELSE [request |->
                      [LaunchTemplateConfig |-> loop.configs,
                       SpotTargetCapacity |-> IF capacityType = "spot" THEN 1 ELSE 0,
                       PayAsYouGoTargetCapacity |-> IF capacityType = "spot" THEN 0 ELSE 1],
                   err |-> ""]

\* The tags the cloud puts on the instances of a request: those of its Tag
\* field, which the request built by getProvisioningGroup does not have.
InstanceTags(request) == IF "Tag" \in DOMAIN request THEN request.Tag ELSE EmptyMap

\* The Tag filter of the DescribeInstancesRequest of List: two keys with any
\* value, and kubernetes.io/cluster with the cluster name.
ListTagFilter ==
    {[Key |-> "NodePoolLabelKey", Value |-> ""],
     [Key |-> "LabelNodeClass", Value |-> ""],
     [Key |-> "kubernetes.io/cluster", Value |-> ClusterName]}

\* DescribeInstances returns an instance when it carries every tag of the
\* filter; a filter tag without value asks for the key only.
MatchesTagFilter(tags, filter) ==
    \A f \in filter :
        /\ f.Key \in DOMAIN tags
        /\ f.Value # "" => tags[f.Key] = f.Value

RequestInit ==
    /\ claimRequirements \in ClaimRequirementSets
    /\ candidateTypes \in CandidateLists
    /\ zonalVSwitchs \in ZonalVSwitchMaps
    /\ nodeClassTags \in NodeClassTagMaps
    /\ launchCall = NoCall

\* Create of the instance provider from getTags on: getTags, then
\* launchInstance (checkODFallback, getCapacityType, getProvisioningGroup,
\* CreateAutoProvisioningGroup). ensure is the answer of EnsureAll and api the
\* answer of the cloud to the request.
launchInstance(ensure, api) ==
    /\ launchCall = NoCall
    /\ LET tags == getTags(nodeClassTags)
           logged == checkODFallback(claimRequirements, candidateTypes)
           capacityType == getCapacityType(claimRequirements, Range(candidateTypes))
           group == getProvisioningGroup(claimRequirements, candidateTypes, zonalVSwitchs,
                                         capacityType, tags, ensure)
       IN  launchCall' =
               [tags |-> tags,
                odFallbackLogged |-> logged,
                ensure |-> ensure,
                capacityType |-> capacityType,
                request |-> group.request,
                submitted |-> group.err = "",
                instanceTags |-> IF group.err = "" /\ api = "launched"
                                 THEN InstanceTags(group.request) ELSE EmptyMap,
                err |-> IF group.err # "" THEN group.err
                        ELSE IF api = "error" THEN "creating auto provisioning group"
                        ELSE ""]
    /\ UNCHANGED <<claimRequirements, candidateTypes, zonalVSwitchs, nodeClassTags>>
    /\ UNCHANGED <<pricingVars, ltVars, launchVars, driftVars, facadeVars, listVars, statusVars, filterVars, typesVars>>

RequestNext ==
    \E ensure \in {"ok", "none", "error"}, api \in {"launched", "error"} :
            launchInstance(ensure, api)

(***************************************************************************)
(* NODECLASS STATUS CONTROLLER                                             *)
(***************************************************************************)
MaxReconciles == 2
MaxOtherWrites == 2

\* RequeueAfter of the three status reconcilers, in minutes.
VSwitchRequeueAfter == 1
SecurityGroupRequeueAfter == 5
ImageRequeueAfter == 5

\* A status list and its condition: never resolved, resolved to nothing
\* (nil list, condition False), resolved (list set, condition True).
StatusValues == {"unset", "none", "resolved"}

\* What a selector resolves to in one Reconcile: the provider's List fails,
\* matches nothing, or matches.
SelectorOutcomes == {"error", "none", "matched"}

NoOutcomes == <<>>
NoWrite == [kind |-> "none"]
NoResult == [returned |-> FALSE]

\* reconcile.Result and the error returned with it.
Result(requeue, requeueAfter, err) ==
    [returned |-> TRUE, Requeue |-> requeue, RequeueAfter |-> requeueAfter, err |-> err]

\* A NodeClass: metadata (resourceVersion, generation, the termination
\* finalizer) and status.
NodeClass(finalizer, status) ==
    [resourceVersion |-> 1, generation |-> 1, finalizer |-> finalizer,
     ramReady |-> status # "unset",
     vSwitches |-> status, securityGroups |-> status, images |-> status]

MetadataFields == {"finalizer"}
StatusFields == {"ramReady", "vSwitches", "securityGroups", "images"}

\* A patch that carries no resourceVersion is never refused.
PatchConflictsNever(from, api) == FALSE

\* client.MergeFromWithOptimisticLock: the patch carries the resourceVersion
\* of the object it was computed from, and the API server answers 409
\* Conflict when the stored object has another one.
PatchConflicts(from, api) == api.resourceVersion # from.resourceVersion

\* A JSON merge patch from -> to limited to the fields of the resource or
\* subresource it is sent to: the fields in which to differs from from take
\* to's value; the resourceVersion moves on when the object changed.
MergePatch(api, from, to, fields) ==
    LET patched == [f \in DOMAIN api |->
                        IF f \in fields /\ to[f] # from[f] THEN to[f] ELSE api[f]]
    IN  IF patched = api THEN api
        ELSE [patched EXCEPT !.resourceVersion = api.resourceVersion + 1]

\* result.Min that counts a zero result as the soonest.
resultMinWithZero(results) ==
    IF \E i \in DOMAIN results : results[i] = 0 THEN 0
    ELSE CHOOSE r \in Range(results) : \A q \in Range(results) : r <= q

\* result.Min: the soonest RequeueAfter among the results that ask for one,
\* 0 (the zero Result) when none does.
resultMin(results) ==
    LET asked == {results[i] : i \in {j \in DOMAIN results : results[j] # 0}}
    IN  IF asked = {} THEN 0
        ELSE CHOOSE r \in asked : \A q \in asked : r <= q

\* One status reconciler: the status value it leaves and the RequeueAfter it
\* returns.
statusReconcile(outcome, current, requeueAfter) ==
    CASE outcome = "error" -> [status |-> current, requeueAfter |-> 0, err |-> TRUE]
      [] outcome = "none" -> [status |-> "none", requeueAfter |-> 0, err |-> FALSE]
      [] OTHER -> [status |-> "resolved", requeueAfter |-> requeueAfter, err |-> FALSE]

StatusInit ==
    /\ apiNodeClass \in {NodeClass(f, s) : f \in BOOLEAN, s \in {"unset", "resolved"}}
    /\ rcNodeClass = apiNodeClass
    /\ rcStored = apiNodeClass
    /\ rcpc = "idle"
    /\ rcResults = <<>>
    /\ rcErrs = FALSE
    /\ rcOutcomes = NoOutcomes
    /\ rcWrite = NoWrite
    /\ rcResult = NoResult
    /\ reconciles = 0
    /\ otherWrites = 0

\* The controller is handed the NodeClass it read.
ReconcileStart ==
    /\ rcpc = "idle"
    /\ reconciles < MaxReconciles
    /\ reconciles' = reconciles + 1
    /\ rcNodeClass' = apiNodeClass
    /\ rcStored' = apiNodeClass
    /\ rcpc' = "finalizer"
    /\ rcResults' = <<>>
    /\ rcErrs' = FALSE
    /\ rcOutcomes' = NoOutcomes
    /\ rcWrite' = NoWrite
    /\ rcResult' = NoResult
    /\ UNCHANGED <<apiNodeClass, otherWrites>>
    /\ UNCHANGED <<pricingVars, ltVars, launchVars, driftVars, facadeVars, listVars, requestVars, filterVars, typesVars>>

\* The finalizer block of Reconcile: nothing when the object has the
\* finalizer; otherwise stored is the copy with the finalizer added, and the
\* patch sent is the one from stored to nodeClass. answer is "served" when the
\* API server processes the patch, "error" for any other failure.
PatchFinalizer(answer) ==
    /\ rcpc = "finalizer"
    /\ IF rcNodeClass.finalizer
       THEN /\ rcpc' = "resolve"
            /\ UNCHANGED <<apiNodeClass, rcNodeClass, rcStored, rcWrite, rcResult>>
       ELSE LET stored == [rcNodeClass EXCEPT !.finalizer = TRUE]
                after == MergePatch(apiNodeClass, stored, rcNodeClass, MetadataFields)
            IN  IF answer = "error"
                THEN /\ rcResult' = Result(FALSE, 0, TRUE)
                     /\ rcpc' = "idle"
                     /\ rcWrite' = [kind |-> "finalizer", answer |-> answer,
                                    base |-> stored.resourceVersion,
                                    before |-> apiNodeClass, after |-> apiNodeClass]
                     /\ UNCHANGED <<apiNodeClass, rcNodeClass, rcStored>>
                ELSE IF PatchConflicts(stored, apiNodeClass)
                THEN /\ rcResult' = Result(TRUE, 0, FALSE)
                     /\ rcpc' = "idle"
                     /\ rcWrite' = [kind |-> "finalizer", answer |-> answer,
                                    base |-> stored.resourceVersion,
                                    before |-> apiNodeClass, after |-> apiNodeClass]
                     /\ UNCHANGED <<apiNodeClass, rcNodeClass, rcStored>>
                ELSE /\ apiNodeClass' = after
                     /\ rcNodeClass' = after
                     /\ rcStored' = stored
                     /\ rcpc' = "resolve"
                     /\ rcWrite' = [kind |-> "finalizer", answer |-> answer,
                                    base |-> stored.resourceVersion,
                                    before |-> apiNodeClass, after |-> after]
                     /\ UNCHANGED rcResult
    /\ UNCHANGED <<rcResults, rcErrs, rcOutcomes, reconciles, otherWrites>>
    /\ UNCHANGED <<pricingVars, ltVars, launchVars, driftVars, facadeVars, listVars, requestVars, filterVars, typesVars>>

\* stored := nodeClass.DeepCopy(), the InstanceRAMReady condition, and the
\* three status reconcilers in turn (the NodeClass has security-group
\* selector terms).
ResolveSelectors(vsw, sg, img) ==
    /\ rcpc = "resolve"
    /\ LET v == statusReconcile(vsw, rcNodeClass.vSwitches, VSwitchRequeueAfter)
           s == statusReconcile(sg, rcNodeClass.securityGroups, SecurityGroupRequeueAfter)
           i == statusReconcile(img, rcNodeClass.images, ImageRequeueAfter)
       IN  /\ rcStored' = rcNodeClass
           /\ rcNodeClass' = [rcNodeClass EXCEPT !.ramReady = TRUE,
                                                 !.vSwitches = v.status,
                                                 !.securityGroups = s.status,
                                                 !.images = i.status]
           /\ rcResults' = <<v.requeueAfter, s.requeueAfter, i.requeueAfter>>
           /\ rcErrs' = (v.err \/ s.err \/ i.err)
    /\ rcOutcomes' = <<vsw, sg, img>>
    /\ rcpc' = "patch"
    /\ UNCHANGED <<apiNodeClass, rcWrite, rcResult, reconciles, otherWrites>>
    /\ UNCHANGED <<pricingVars, ltVars, launchVars, driftVars, facadeVars, listVars, requestVars, filterVars, typesVars>>

\* The status patch and the return of Reconcile.
PatchStatus(answer) ==
    /\ rcpc = "patch"
    /\ rcpc' = "idle"
    /\ IF rcStored = rcNodeClass
       THEN /\ rcResult' = IF rcErrs THEN Result(FALSE, 0, TRUE)
                           ELSE Result(FALSE, resultMin(rcResults), FALSE)
            /\ UNCHANGED <<apiNodeClass, rcNodeClass, rcWrite>>
       ELSE LET after == MergePatch(apiNodeClass, rcStored, rcNodeClass, StatusFields)
                write == [kind |-> "status", answer |-> answer,
                          base |-> rcStored.resourceVersion, before |-> apiNodeClass]
            IN  IF answer = "error"
                THEN /\ rcResult' = Result(FALSE, 0, TRUE)
                     /\ rcWrite' = write @@ [after |-> apiNodeClass]
                     /\ UNCHANGED <<apiNodeClass, rcNodeClass>>
                ELSE IF PatchConflicts(rcStored, apiNodeClass)
                THEN /\ rcResult' = Result(TRUE, 0, FALSE)
                     /\ rcWrite' = write @@ [after |-> apiNodeClass]
                     /\ UNCHANGED <<apiNodeClass, rcNodeClass>>
                ELSE /\ apiNodeClass' = after
                     /\ rcNodeClass' = after
                     /\ rcWrite' = write @@ [after |-> after]
                     /\ rcResult' = IF rcErrs THEN Result(FALSE, 0, TRUE)
                                    ELSE Result(FALSE, resultMin(rcResults), FALSE)
    /\ UNCHANGED <<rcStored, rcResults, rcErrs, rcOutcomes, reconciles, otherWrites>>
    /\ UNCHANGED <<pricingVars, ltVars, launchVars, driftVars, facadeVars, listVars, requestVars, filterVars, typesVars>>

\* Another client changes the stored NodeClass.
OtherWrite ==
    /\ otherWrites < MaxOtherWrites
    /\ otherWrites' = otherWrites + 1
    /\ apiNodeClass' = [apiNodeClass EXCEPT !.generation = @ + 1, !.resourceVersion = @ + 1]
    /\ UNCHANGED <<rcNodeClass, rcStored, rcpc, rcResults, rcErrs, rcOutcomes, rcWrite,
                   rcResult, reconciles>>
    /\ UNCHANGED <<pricingVars, ltVars, launchVars, driftVars, facadeVars, listVars, requestVars, filterVars, typesVars>>

StatusNext ==
    \/ ReconcileStart
    \/ \E answer \in {"served", "error"} : PatchFinalizer(answer)
    \/ \E vsw \in SelectorOutcomes, sg \in SelectorOutcomes, img \in SelectorOutcomes :
            ResolveSelectors(vsw, sg, img)
    \/ \E answer \in {"served", "error"} : PatchStatus(answer)
    \/ OtherWrite

(***************************************************************************)
(* INSTANCE PROVIDER: the filter of the candidate instance types           *)
(***************************************************************************)
MaxCandidates == 2
MaxFloat64 == 1000000

\* An offering with its price.
PricedOffering(zone, capacityType, available, price) ==
    [zone |-> zone, capacityType |-> capacityType, available |-> available, Price |-> price]

\* Candidate instance types: exotic stands for a metal size or a GPU capacity.
CheapSpotType ==
    [name |-> "f1", exotic |-> FALSE,
     offerings |-> <<PricedOffering("za", "on-demand", TRUE, 10),
                     PricedOffering("za", "spot", TRUE, 4)>>]

DearSpotType ==
    [name |-> "f2", exotic |-> FALSE,
     offerings |-> <<PricedOffering("za", "spot", TRUE, 12),
                     PricedOffering("za", "on-demand", TRUE, 20)>>]

OtherZoneType ==
    [name |-> "f3", exotic |-> FALSE,
     offerings |-> <<PricedOffering("zb", "on-demand", TRUE, 3)>>]

SpotOnlyType ==
    [name |-> "f4", exotic |-> FALSE,
     offerings |-> <<PricedOffering("za", "spot", TRUE, 6),
                     PricedOffering("za", "on-demand", FALSE, 8)>>]

GPUType ==
    [name |-> "f5", exotic |-> TRUE,
     offerings |-> <<PricedOffering("za", "on-demand", TRUE, 2),
                     PricedOffering("za", "spot", TRUE, 1)>>]

SoldOutType ==
    [name |-> "f6", exotic |-> FALSE,
     offerings |-> <<PricedOffering("za", "spot", FALSE, 5)>>]

FilterTypes == {CheapSpotType, DearSpotType, OtherZoneType, SpotOnlyType, GPUType, SoldOutType}

\* The lists of up to MaxCandidates different candidate types.
FilterCandidateLists ==
    {l \in UNION {[1..n -> FilterTypes] : n \in 1..MaxCandidates} :
        \A i \in 1..Len(l), j \in 1..Len(l) : i # j => l[i] # l[j]}

FilterClaims ==
    {Requirements(c, z) : c \in {{"on-demand"}, {"on-demand", "spot"}, {"spot"}},
                          z \in {{"za"}, {"za", "zb"}}}

NoFilterResult == [done |-> FALSE, types |-> <<>>]

\* Offerings.Available()
Available(offerings) == SelectSeq(offerings, LAMBDA o : o.available)

\* Offerings.Cheapest(): the first offering of the lowest price.
RECURSIVE CheapestFrom(_, _)
CheapestFrom(offerings, best) ==
    IF offerings = <<>> THEN best
    ELSE CheapestFrom(Tail(offerings),
                      IF Head(offerings).Price < best.Price THEN Head(offerings) ELSE best)

Cheapest(offerings) == CheapestFrom(Tail(offerings), Head(offerings))

\* filterExoticInstanceTypes: the types that are neither metal nor GPU, or
\* all of them when none is left.
filterExoticInstanceTypes(instanceTypes) ==
    LET genericInstanceTypes == SelectSeq(instanceTypes, LAMBDA it : ~it.exotic)
    IN  IF Len(genericInstanceTypes) # 0 THEN genericInstanceTypes ELSE instanceTypes

\* The available offerings of a list of instance types, in order.
RECURSIVE AvailableOfferings(_)
AvailableOfferings(instanceTypes) ==
    IF instanceTypes = <<>> THEN <<>>
    ELSE Available(Head(instanceTypes).offerings) \o AvailableOfferings(Tail(instanceTypes))

\* isMixedCapacityLaunch without the test of the offerings against the
\* requirements of the node claim.
isMixedCapacityLaunchAnyOffering(reqs, instanceTypes) ==
    IF "spot" \notin reqs.capacityTypes \/ "on-demand" \notin reqs.capacityTypes THEN FALSE
    ELSE LET offerings == AvailableOfferings(instanceTypes)
         IN  /\ \E i \in 1..Len(offerings) : offerings[i].capacityType = "spot"
             /\ \E i \in 1..Len(offerings) : offerings[i].capacityType # "spot"

\* isMixedCapacityLaunch: the requirements admit both capacity types, and
\* among the available offerings the requirements are compatible with there
\* is a spot one and one that is not spot.
isMixedCapacityLaunch(reqs, instanceTypes) ==
    IF "spot" \notin reqs.capacityTypes \/ "on-demand" \notin reqs.capacityTypes THEN FALSE
    ELSE LET offerings == SelectSeq(AvailableOfferings(instanceTypes),
                                    LAMBDA o : Compatible(reqs, o))
             hasSpotOfferings == \E i \in 1..Len(offerings) : offerings[i].capacityType = "spot"
             hasODOffering == \E i \in 1..Len(offerings) : offerings[i].capacityType # "spot"
         IN  hasSpotOfferings /\ hasODOffering

\* The first loop of filterUnwantedSpot: the lowest price of an available
\* on-demand offering, math.MaxFloat64 when there is none.
RECURSIVE cheapestOnDemandFrom(_, _)
cheapestOnDemandFrom(offerings, cheapestOnDemand) ==
    IF offerings = <<>> THEN cheapestOnDemand
    ELSE LET o == Head(offerings)
         IN  cheapestOnDemandFrom(Tail(offerings),
                IF o.capacityType = "on-demand" /\ o.Price < cheapestOnDemand
                THEN o.Price ELSE cheapestOnDemand)

\* filterUnwantedSpot: the types with an available offering whose cheapest
\* available offering costs no more than the cheapest on-demand one.
filterUnwantedSpot(instanceTypes) ==
    LET cheapestOnDemand == cheapestOnDemandFrom(AvailableOfferings(instanceTypes), MaxFloat64)
    IN  SelectSeq(instanceTypes,
            LAMBDA item :
                LET available == Available(item.offerings)
                IN  IF Len(available) = 0 THEN FALSE
                    ELSE Cheapest(available).Price <= cheapestOnDemand)

filterInstanceTypes(reqs, instanceTypes) ==
    LET generic == filterExoticInstanceTypes(instanceTypes)
    IN  IF isMixedCapacityLaunch(reqs, generic) THEN filterUnwantedSpot(generic) ELSE generic

FilterInit ==
    /\ filterClaim \in FilterClaims
    /\ filterCandidates \in FilterCandidateLists
    /\ filterResult = NoFilterResult

\* One call of filterInstanceTypes by Create.
FilterInstanceTypes ==
    /\ ~filterResult.done
    /\ filterResult' = [done |-> TRUE, types |-> filterInstanceTypes(filterClaim, filterCandidates)]
    /\ UNCHANGED <<filterClaim, filterCandidates>>
    /\ UNCHANGED <<pricingVars, ltVars, launchVars, driftVars, facadeVars, listVars, requestVars, statusVars, typesVars>>

FilterNext == FilterInstanceTypes

(***************************************************************************)
(* INSTANCE-TYPE PROVIDER: the catalog, the offerings and the cached List  *)
(***************************************************************************)
MaxTypeUpdates == 3
MaxUnavailableSeqNum == 1

\* MaxResults of the DescribeInstanceTypes request (100 in the code), scaled.
MaxResults == 2

\* The instance-type catalogs the cloud can hold, in the order it pages them:
\* one that fits in a page, and two of a page and one type more.
CatalogTypes == <<"t1", "t2", "t3", "t4", "t5">>
Catalogs ==
    {<<"t1">>,
     SubSeq(CatalogTypes, 1, MaxResults + 1),
     [i \in 1..(MaxResults + 1) |-> CatalogTypes[MaxResults + 2 - i]]}

\* What DescribeAvailableResource can report with stock: type -> zones.
AvailableResources ==
    {EmptyMap, [t \in {"t1"} |-> {"za"}], [t \in {"t1", "t2"} |-> {"za", "zb"}]}

\* The on-demand and spot price the pricing provider knows for every type.
PriceLevels == {[od |-> 10, spot |-> 4], [od |-> 20, spot |-> 5]}

\* The zones of nodeClass.Status.VSwitches and the kubelet configuration of
\* a List call.
ListInputs ==
    {[zones |-> {}, kc |-> "kc1"], [zones |-> {"za"}, kc |-> "kc1"],
     [zones |-> {"za", "zb"}, kc |-> "kc1"], [zones |-> {"za"}, kc |-> "kc2"]}

UnavailableTriple == <<"t1", "za", "on-demand">>

NoUpdate == [kind |-> "none", ok |-> FALSE, fetched |-> <<>>, changed |-> FALSE]
NoList == [done |-> FALSE, err |-> "", cached |-> FALSE, result |-> <<>>, fresh |-> <<>>]

Min(a, b) == IF a < b THEN a ELSE b

\* The page of DescribeInstanceTypes a token asks for, and the token of the
\* next page, 0 (the empty string) on the last page.
DescribeInstanceTypesPage(catalog, token) ==
    [InstanceType |-> SubSeq(catalog, token * MaxResults + 1,
                             Min((token + 1) * MaxResults, Len(catalog))),
     NextToken |-> IF Len(catalog) > (token + 1) * MaxResults THEN token + 1 ELSE 0]

\* The loop of getAllInstanceTypes: the answer is tested first, and an empty
\* NextToken or an empty page ends the loop before the page is appended.
RECURSIVE getAllInstanceTypes(_, _, _)
getAllInstanceTypes(catalog, token, InstanceTypes) ==
    LET resp == DescribeInstanceTypesPage(catalog, token)
    IN  IF resp.NextToken = 0 \/ Len(resp.InstanceType) = 0 THEN InstanceTypes
        ELSE getAllInstanceTypes(catalog, resp.NextToken,
                                 InstanceTypes \o resp.InstanceType)

\* A change monitor that reports every value as changed.
HasChangedAlways(lastSeen, key, value) == TRUE

\* ChangeMonitor.HasChanged: the key was not seen yet, or was last seen with
\* another value; the value is then remembered.
HasChanged(lastSeen, key, value) == key \notin DOMAIN lastSeen \/ lastSeen[key] # value

\* The key of List: the three sequence numbers, the hash of the vSwitch
\* zones and the hash of the kubelet configuration.
CacheKey(zones, kc) ==
    <<instanceTypesSeqNum, instanceTypeOfferingsSeqNum, unavailableCache.SeqNum, zones, kc>>

\* The entries of the cache a List can still read: those stored under the
\* sequence numbers given. The others stay in the code's cache until they
\* expire, but no key a later List computes names them.
Readable(cache, typesSeqNum, offeringsSeqNum, unavailableSeqNum) ==
    [k \in {x \in DOMAIN cache : /\ x[1] = typesSeqNum
                                  /\ x[2] = offeringsSeqNum
                                  /\ x[3] = unavailableSeqNum} |-> cache[k]]

\* createOfferings of this provider: for every zone of any offering, an
\* on-demand and a spot offering with the price the pricing provider has now.
createPricedOfferings(instanceType, zones, instanceTypeZones, vswitchZones) ==
    {[zone |-> zone, capacityType |-> ct,
      Price |-> IF ct = "on-demand" THEN providerPrices.od ELSE providerPrices.spot,
      available |-> /\ <<instanceType, zone, ct>> \notin unavailableCache.triples
                    /\ zone \in instanceTypeZones
                    /\ zone \in vswitchZones] :
        zone \in zones, ct \in {"on-demand", "spot"}}

\* The computation of List on a cache miss.
computeInstanceTypes(zones, kc) ==
    LET allZones == UNION {zoneOfferings[t] : t \in DOMAIN zoneOfferings}
    IN  [i \in 1..Len(instanceTypesInfo) |->
            [name |-> instanceTypesInfo[i], kc |-> kc,
             offerings |-> createPricedOfferings(instanceTypesInfo[i], allZones,
                              MapGet(zoneOfferings, instanceTypesInfo[i], {}), zones)]]

TypesInit ==
    /\ instanceTypesInfo = <<>>
    /\ zoneOfferings = EmptyMap
    /\ instanceTypesSeqNum = 0
    /\ instanceTypeOfferingsSeqNum = 0
    /\ unavailableCache = [triples |-> {}, SeqNum |-> 0]
    /\ cmLastSeen = EmptyMap
    /\ instanceTypesCache = EmptyMap
    /\ providerPrices = [od |-> 10, spot |-> 4]
    /\ typeUpdates = 0
    /\ lastUpdate = NoUpdate
    /\ lastList = NoList

TypesUnchangedOthers ==
    UNCHANGED <<pricingVars, ltVars, launchVars, driftVars, facadeVars, listVars, requestVars, statusVars, filterVars>>

\* UpdateInstanceTypes under the write lock: getAllInstanceTypes, the change
\* monitor and the sequence number, and the store.
UpdateInstanceTypes(catalog, ok) ==
    /\ typeUpdates < MaxTypeUpdates
    /\ typeUpdates' = typeUpdates + 1
    /\ IF ~ok
       THEN /\ lastUpdate' = [kind |-> "types", ok |-> FALSE, fetched |-> catalog,
                              changed |-> FALSE]
            /\ UNCHANGED <<instanceTypesInfo, instanceTypesSeqNum, cmLastSeen>>
       ELSE LET instanceTypes == getAllInstanceTypes(catalog, 0, <<>>)
            IN  /\ IF HasChanged(cmLastSeen, "instance-types", instanceTypes)
                   THEN /\ instanceTypesSeqNum' = instanceTypesSeqNum + 1
                        /\ cmLastSeen' = MapSet(cmLastSeen, "instance-types", instanceTypes)
                   ELSE UNCHANGED <<instanceTypesSeqNum, cmLastSeen>>
                /\ instanceTypesInfo' = instanceTypes
                /\ lastUpdate' = [kind |-> "types", ok |-> TRUE, fetched |-> catalog,
                                  changed |-> HasChanged(cmLastSeen, "instance-types", instanceTypes)]
    /\ instanceTypesCache' = Readable(instanceTypesCache, instanceTypesSeqNum',
                                      instanceTypeOfferingsSeqNum, unavailableCache.SeqNum)
    /\ UNCHANGED <<zoneOfferings, instanceTypeOfferingsSeqNum, unavailableCache,
                   providerPrices, lastList>>
    /\ TypesUnchangedOthers

\* UpdateInstanceTypeOfferings under the write lock: the call fails, or
\* reports nothing (an error), or the offerings are stored.
UpdateInstanceTypeOfferings(resources, ok) ==
    /\ typeUpdates < MaxTypeUpdates
    /\ typeUpdates' = typeUpdates + 1
    /\ IF ~ok \/ resources = EmptyMap
       THEN /\ lastUpdate' = [kind |-> "offerings", ok |-> FALSE, fetched |-> resources,
                              changed |-> FALSE]
            /\ UNCHANGED <<zoneOfferings, instanceTypeOfferingsSeqNum, cmLastSeen>>
       ELSE /\ IF HasChanged(cmLastSeen, "instance-type-offering", resources)
               THEN /\ instanceTypeOfferingsSeqNum' = instanceTypeOfferingsSeqNum + 1
                    /\ cmLastSeen' = MapSet(cmLastSeen, "instance-type-offering", resources)
               ELSE UNCHANGED <<instanceTypeOfferingsSeqNum, cmLastSeen>>
            /\ zoneOfferings' = resources
            /\ lastUpdate' = [kind |-> "offerings", ok |-> TRUE, fetched |-> resources,
                              changed |-> HasChanged(cmLastSeen, "instance-type-offering", resources)]
    /\ instanceTypesCache' = Readable(instanceTypesCache, instanceTypesSeqNum,
                                      instanceTypeOfferingsSeqNum', unavailableCache.SeqNum)
    /\ UNCHANGED <<instanceTypesInfo, instanceTypesSeqNum, unavailableCache,
                   providerPrices, lastList>>
    /\ TypesUnchangedOthers

\* The unavailable-offerings cache changes (a triple is marked, or its mark
\* expires) and its sequence number advances.
UnavailableChange ==
    /\ unavailableCache.SeqNum < MaxUnavailableSeqNum
    /\ unavailableCache' =
          [triples |-> IF UnavailableTriple \in unavailableCache.triples
                       THEN unavailableCache.triples \ {UnavailableTriple}
                       ELSE unavailableCache.triples \cup {UnavailableTriple},
           SeqNum |-> unavailableCache.SeqNum + 1]
    /\ instanceTypesCache' = Readable(instanceTypesCache, instanceTypesSeqNum,
                                      instanceTypeOfferingsSeqNum, unavailableCache'.SeqNum)
    /\ UNCHANGED <<instanceTypesInfo, zoneOfferings, instanceTypesSeqNum,
                   instanceTypeOfferingsSeqNum, cmLastSeen,
                   providerPrices, typeUpdates, lastUpdate, lastList>>
    /\ TypesUnchangedOthers

\* UpdateOnDemandPricing or UpdateSpotPricing of the pricing provider stores
\* other prices.
PriceChange(prices) ==
    /\ prices # providerPrices
    /\ providerPrices' = prices
    /\ UNCHANGED <<instanceTypesInfo, zoneOfferings, instanceTypesSeqNum,
                   instanceTypeOfferingsSeqNum, unavailableCache, cmLastSeen,
                   instanceTypesCache, typeUpdates, lastUpdate, lastList>>
    /\ TypesUnchangedOthers

\* The entries of instanceTypesCache expire.
TypesCacheExpire ==
    /\ instanceTypesCache # EmptyMap
    /\ instanceTypesCache' = EmptyMap
    /\ UNCHANGED <<instanceTypesInfo, zoneOfferings, instanceTypesSeqNum,
                   instanceTypeOfferingsSeqNum, unavailableCache, cmLastSeen,
                   providerPrices, typeUpdates, lastUpdate, lastList>>
    /\ TypesUnchangedOthers

\* List under both read locks: the three early errors, the cache key, the
\* cached list on a hit, and the computation and its store on a miss.
ListInstanceTypesCached(in) ==
    LET key == CacheKey(in.zones, in.kc)
        fresh == computeInstanceTypes(in.zones, in.kc)
        err == IF Len(instanceTypesInfo) = 0 THEN "no instance types found"
               ELSE IF zoneOfferings = EmptyMap THEN "no instance types offerings found"
               ELSE IF in.zones = {} THEN "no vswitches found"
               ELSE ""
    IN  /\ IF err # ""
           THEN /\ lastList' = [done |-> TRUE, err |-> err, cached |-> FALSE,
                                result |-> <<>>, fresh |-> <<>>]
                /\ UNCHANGED instanceTypesCache
           ELSE IF key \in DOMAIN instanceTypesCache
           THEN /\ lastList' = [done |-> TRUE, err |-> "", cached |-> TRUE,
                                result |-> instanceTypesCache[key], fresh |-> fresh]
                /\ UNCHANGED instanceTypesCache
           ELSE /\ lastList' = [done |-> TRUE, err |-> "", cached |-> FALSE,
                                result |-> fresh, fresh |-> fresh]
                /\ instanceTypesCache' = MapSet(instanceTypesCache, key, fresh)
        /\ UNCHANGED <<instanceTypesInfo, zoneOfferings, instanceTypesSeqNum,
                       instanceTypeOfferingsSeqNum, unavailableCache, cmLastSeen,
                       providerPrices, typeUpdates, lastUpdate>>
        /\ TypesUnchangedOthers

TypesNext ==
    \/ \E catalog \in Catalogs, ok \in BOOLEAN : UpdateInstanceTypes(catalog, ok)
    \/ \E resources \in AvailableResources, ok \in BOOLEAN :
            UpdateInstanceTypeOfferings(resources, ok)
    \/ UnavailableChange
    \/ \E prices \in PriceLevels : PriceChange(prices)
    \/ TypesCacheExpire
    \/ \E in \in ListInputs : ListInstanceTypesCached(in)

(***************************************************************************)
(* SPECIFICATIONS                                                          *)
(***************************************************************************)
vars == <<pricingVars, ltVars, launchVars, cloudVars>>

\* Each specification starts its own subsystem in any of its initial states
\* and the other subsystems in one of theirs.
InitPricing ==
    /\ PricingInit
    /\ LTInit /\ cloudTemplates = EmptyMap
    /\ LaunchInit
    /\ nodeClaim = [annotations |-> EmptyMap]
    /\ nodeClass = [annotations |-> EmptyMap, securityGroups |-> <<>>, vSwitches |-> <<>>]
    /\ ecsInstance = [securityGroupIDs |-> <<"sgA">>, vSwitchID |-> "vsw-1"]
    /\ driftLookup = "ok"
    /\ driftResult = NoDriftResult
    /\ FacadeInit /\ instanceTypeOfferings["t2"] = {}
    /\ ListInit /\ taggedInstances = {} /\ pageSize = 1
    /\ RequestInit /\ claimRequirements = ClaimRequirements(FALSE) /\ candidateTypes = <<SpotTypeA>>
    /\ zonalVSwitchs = EmptyMap /\ nodeClassTags = EmptyMap
    /\ StatusInit /\ apiNodeClass = NodeClass(TRUE, "resolved")
    /\ FilterInit /\ filterClaim = ClaimRequirements(TRUE) /\ filterCandidates = <<CheapSpotType>>
    /\ TypesInit

InitLT ==
    /\ PricingInit /\ region = "cn-beijing" /\ priceData = EmptyMap
    /\ LTInit
    /\ LaunchInit
    /\ nodeClaim = [annotations |-> EmptyMap]
    /\ nodeClass = [annotations |-> EmptyMap, securityGroups |-> <<>>, vSwitches |-> <<>>]
    /\ ecsInstance = [securityGroupIDs |-> <<"sgA">>, vSwitchID |-> "vsw-1"]
    /\ driftLookup = "ok"
    /\ driftResult = NoDriftResult
    /\ FacadeInit /\ instanceTypeOfferings["t2"] = {}
    /\ ListInit /\ taggedInstances = {} /\ pageSize = 1
    /\ RequestInit /\ claimRequirements = ClaimRequirements(FALSE) /\ candidateTypes = <<SpotTypeA>>
    /\ zonalVSwitchs = EmptyMap /\ nodeClassTags = EmptyMap
    /\ StatusInit /\ apiNodeClass = NodeClass(TRUE, "resolved")
    /\ FilterInit /\ filterClaim = ClaimRequirements(TRUE) /\ filterCandidates = <<CheapSpotType>>
    /\ TypesInit

InitLaunch ==
    /\ PricingInit /\ region = "cn-beijing" /\ priceData = EmptyMap
    /\ LTInit /\ cloudTemplates = EmptyMap
    /\ LaunchInit
    /\ nodeClaim = [annotations |-> EmptyMap]
    /\ nodeClass = [annotations |-> EmptyMap, securityGroups |-> <<>>, vSwitches |-> <<>>]
    /\ ecsInstance = [securityGroupIDs |-> <<"sgA">>, vSwitchID |-> "vsw-1"]
    /\ driftLookup = "ok"
    /\ driftResult = NoDriftResult
    /\ FacadeInit /\ instanceTypeOfferings["t2"] = {}
    /\ ListInit /\ taggedInstances = {} /\ pageSize = 1
    /\ RequestInit /\ claimRequirements = ClaimRequirements(FALSE) /\ candidateTypes = <<SpotTypeA>>
    /\ zonalVSwitchs = EmptyMap /\ nodeClassTags = EmptyMap
    /\ StatusInit /\ apiNodeClass = NodeClass(TRUE, "resolved")
    /\ FilterInit /\ filterClaim = ClaimRequirements(TRUE) /\ filterCandidates = <<CheapSpotType>>
    /\ TypesInit

SpecPricing == InitPricing /\ [][PricingNext]_vars

SpecLT == InitLT /\ [][LTNext]_vars

SpecLaunch == InitLaunch /\ [][LaunchNext]_vars

\* The launch-template provider with its scheduling: the cloud serves every
\* delete call of the eviction callback, InvalidateCache is called for
\* templates the cloud no longer has, the janitor's sweep comes round, a
\* callback waiting for the mutex gets it, and a call holding the mutex goes on.
LTLiveNext ==
    \/ \E w \in LTWorkers, resolved \in ResolvedLists : EnsureAllBegin(w, resolved)
    \/ \E w \in LTWorkers : EnsureLookup(w)
    \/ \E w \in LTWorkers, ok \in BOOLEAN : EnsureDescribe(w, ok)
    \/ \E w \in LTWorkers, ok \in BOOLEAN : EnsureCreate(w, ok)
    \/ \E name \in TemplateNames : ExpireItem(name)
    \/ DeleteExpired
    \/ \E e \in pendingEvictions : EvictedCallback(e, TRUE)
    \/ \E w \in LTWorkers, name \in TemplateNames \ DOMAIN cloudTemplates : InvalidateBegin(w, name)
    \/ \E w \in LTWorkers : InvalidateDelete(w)
    \/ \E w \in LTWorkers : InvalidateEnd(w)

LTFairness ==
    /\ WF_vars(DeleteExpired)
    /\ WF_vars(\E e \in pendingEvictions : EvictedCallback(e, TRUE))
    /\ WF_vars(\E w \in LTWorkers : EnsureLookup(w))
    /\ WF_vars(\E w \in LTWorkers, ok \in BOOLEAN : EnsureDescribe(w, ok))
    /\ WF_vars(\E w \in LTWorkers, ok \in BOOLEAN : EnsureCreate(w, ok))
    /\ WF_vars(\E w \in LTWorkers : InvalidateDelete(w))
    /\ WF_vars(\E w \in LTWorkers : InvalidateEnd(w))

SpecLTLive == InitLT /\ [][LTLiveNext]_vars /\ LTFairness

InitDrift ==
    /\ PricingInit /\ region = "cn-beijing" /\ priceData = EmptyMap
    /\ LTInit /\ cloudTemplates = EmptyMap /\ ltCache = EmptyMap
    /\ LaunchInit
    /\ DriftInit
    /\ FacadeInit /\ instanceTypeOfferings["t2"] = {}
    /\ ListInit /\ taggedInstances = {} /\ pageSize = 1
    /\ RequestInit /\ claimRequirements = ClaimRequirements(FALSE) /\ candidateTypes = <<SpotTypeA>>
    /\ zonalVSwitchs = EmptyMap /\ nodeClassTags = EmptyMap
    /\ StatusInit /\ apiNodeClass = NodeClass(TRUE, "resolved")
    /\ FilterInit /\ filterClaim = ClaimRequirements(TRUE) /\ filterCandidates = <<CheapSpotType>>
    /\ TypesInit

SpecDrift == InitDrift /\ [][DriftNext]_vars

InitFacade ==
    /\ PricingInit /\ region = "cn-beijing" /\ priceData = EmptyMap
    /\ LTInit /\ cloudTemplates = EmptyMap /\ ltCache = EmptyMap
    /\ LaunchInit
    /\ nodeClaim = [annotations |-> EmptyMap]
    /\ nodeClass = [annotations |-> EmptyMap, securityGroups |-> <<>>, vSwitches |-> <<>>]
    /\ ecsInstance = [securityGroupIDs |-> <<"sgA">>, vSwitchID |-> "vsw-1"]
    /\ driftLookup = "ok"
    /\ driftResult = NoDriftResult
    /\ FacadeInit
    /\ ListInit /\ taggedInstances = {} /\ pageSize = 1
    /\ RequestInit /\ claimRequirements = ClaimRequirements(FALSE) /\ candidateTypes = <<SpotTypeA>>
    /\ zonalVSwitchs = EmptyMap /\ nodeClassTags = EmptyMap
    /\ StatusInit /\ apiNodeClass = NodeClass(TRUE, "resolved")
    /\ FilterInit /\ filterClaim = ClaimRequirements(TRUE) /\ filterCandidates = <<CheapSpotType>>
    /\ TypesInit

SpecFacade == InitFacade /\ [][FacadeNext]_vars

InitList ==
    /\ PricingInit /\ region = "cn-beijing" /\ priceData = EmptyMap
    /\ LTInit /\ cloudTemplates = EmptyMap /\ ltCache = EmptyMap
    /\ LaunchInit
    /\ nodeClaim = [annotations |-> EmptyMap]
    /\ nodeClass = [annotations |-> EmptyMap, securityGroups |-> <<>>, vSwitches |-> <<>>]
    /\ ecsInstance = [securityGroupIDs |-> <<"sgA">>, vSwitchID |-> "vsw-1"]
    /\ driftLookup = "ok"
    /\ driftResult = NoDriftResult
    /\ FacadeInit /\ instanceTypeOfferings["t2"] = {}
    /\ ListInit
    /\ RequestInit /\ claimRequirements = ClaimRequirements(FALSE) /\ candidateTypes = <<SpotTypeA>>
    /\ zonalVSwitchs = EmptyMap /\ nodeClassTags = EmptyMap
    /\ StatusInit /\ apiNodeClass = NodeClass(TRUE, "resolved")
    /\ FilterInit /\ filterClaim = ClaimRequirements(TRUE) /\ filterCandidates = <<CheapSpotType>>
    /\ TypesInit

SpecList == InitList /\ [][ListNext]_vars

InitRequest ==
    /\ PricingInit /\ region = "cn-beijing" /\ priceData = EmptyMap
    /\ LTInit /\ cloudTemplates = EmptyMap /\ ltCache = EmptyMap
    /\ LaunchInit
    /\ nodeClaim = [annotations |-> EmptyMap]
    /\ nodeClass = [annotations |-> EmptyMap, securityGroups |-> <<>>, vSwitches |-> <<>>]
    /\ ecsInstance = [securityGroupIDs |-> <<"sgA">>, vSwitchID |-> "vsw-1"]
    /\ driftLookup = "ok"
    /\ driftResult = NoDriftResult
    /\ FacadeInit /\ instanceTypeOfferings["t2"] = {}
    /\ ListInit /\ taggedInstances = {} /\ pageSize = 1
    /\ RequestInit
    /\ StatusInit /\ apiNodeClass = NodeClass(TRUE, "resolved")
    /\ FilterInit /\ filterClaim = ClaimRequirements(TRUE) /\ filterCandidates = <<CheapSpotType>>
    /\ TypesInit

SpecRequest == InitRequest /\ [][RequestNext]_vars

InitStatus ==
    /\ PricingInit /\ region = "cn-beijing" /\ priceData = EmptyMap
    /\ LTInit /\ cloudTemplates = EmptyMap /\ ltCache = EmptyMap
    /\ LaunchInit
    /\ nodeClaim = [annotations |-> EmptyMap]
    /\ nodeClass = [annotations |-> EmptyMap, securityGroups |-> <<>>, vSwitches |-> <<>>]
    /\ ecsInstance = [securityGroupIDs |-> <<"sgA">>, vSwitchID |-> "vsw-1"]
    /\ driftLookup = "ok"
    /\ driftResult = NoDriftResult
    /\ FacadeInit /\ instanceTypeOfferings["t2"] = {}
    /\ ListInit /\ taggedInstances = {} /\ pageSize = 1
    /\ RequestInit /\ claimRequirements = ClaimRequirements(FALSE) /\ candidateTypes = <<SpotTypeA>>
    /\ zonalVSwitchs = EmptyMap /\ nodeClassTags = EmptyMap
    /\ StatusInit
    /\ FilterInit /\ filterClaim = ClaimRequirements(TRUE) /\ filterCandidates = <<CheapSpotType>>
    /\ TypesInit

SpecStatus == InitStatus /\ [][StatusNext]_vars

InitFilter ==
    /\ PricingInit /\ region = "cn-beijing" /\ priceData = EmptyMap
    /\ LTInit /\ cloudTemplates = EmptyMap /\ ltCache = EmptyMap
    /\ LaunchInit
    /\ nodeClaim = [annotations |-> EmptyMap]
    /\ nodeClass = [annotations |-> EmptyMap, securityGroups |-> <<>>, vSwitches |-> <<>>]
    /\ ecsInstance = [securityGroupIDs |-> <<"sgA">>, vSwitchID |-> "vsw-1"]
    /\ driftLookup = "ok"
    /\ driftResult = NoDriftResult
    /\ FacadeInit /\ instanceTypeOfferings["t2"] = {}
    /\ ListInit /\ taggedInstances = {} /\ pageSize = 1
    /\ RequestInit /\ claimRequirements = ClaimRequirements(FALSE) /\ candidateTypes = <<SpotTypeA>>
    /\ zonalVSwitchs = EmptyMap /\ nodeClassTags = EmptyMap
    /\ StatusInit /\ apiNodeClass = NodeClass(TRUE, "resolved")
    /\ FilterInit
    /\ TypesInit

SpecFilter == InitFilter /\ [][FilterNext]_vars

InitTypes ==
    /\ PricingInit /\ region = "cn-beijing" /\ priceData = EmptyMap
    /\ LTInit /\ cloudTemplates = EmptyMap /\ ltCache = EmptyMap
    /\ LaunchInit
    /\ nodeClaim = [annotations |-> EmptyMap]
    /\ nodeClass = [annotations |-> EmptyMap, securityGroups |-> <<>>, vSwitches |-> <<>>]
    /\ ecsInstance = [securityGroupIDs |-> <<"sgA">>, vSwitchID |-> "vsw-1"]
    /\ driftLookup = "ok"
    /\ driftResult = NoDriftResult
    /\ FacadeInit /\ instanceTypeOfferings["t2"] = {}
    /\ ListInit /\ taggedInstances = {} /\ pageSize = 1
    /\ RequestInit /\ claimRequirements = ClaimRequirements(FALSE) /\ candidateTypes = <<SpotTypeA>>
    /\ zonalVSwitchs = EmptyMap /\ nodeClassTags = EmptyMap
    /\ StatusInit /\ apiNodeClass = NodeClass(TRUE, "resolved")
    /\ FilterInit /\ filterClaim = ClaimRequirements(TRUE) /\ filterCandidates = <<CheapSpotType>>
    /\ TypesInit

SpecTypes == InitTypes /\ [][TypesNext]_vars

(***************************************************************************)
(* PROPERTIES: pricing                                                     *)
(***************************************************************************)

\* C8: across all callers of UpdateOnDemandPricing and UpdateSpotPricing, the
\* price feed is synced at most once in any 5-minute window: two Sync calls
\* that return nil are at least PriceSyncInterval apart.
C8_SyncAtMostOncePerInterval == minSyncGap >= PriceSyncInterval

\* A step of caller w in an update whose Sync failed: the step on which Sync
\* returns its error, or a later step of a call whose Sync failed but
\* returned nil.
FailedSyncStep(w) ==
    \/ ppc[w] = "check" /\ ppc'[w] = "idle"
    \/ syncOutcome[w] \in SyncFailures /\ ppc[w] # ppc'[w]

PriceQueriesUnchanged ==
    /\ \A t \in InstanceTypeNames : OnDemandPrice(t)' = OnDemandPrice(t)
    /\ \A t \in InstanceTypeNames, z \in PriceZones : SpotPrice(t, z)' = SpotPrice(t, z)

\* C9: a failed refresh leaves prior values intact: no step of an update
\* whose price-feed sync failed changes the result of any OnDemandPrice or
\* SpotPrice query.
C9_FailedRefreshKeepsPrices ==
    [][\A w \in PriceCallers : FailedSyncStep(w) => PriceQueriesUnchanged]_vars

\* The price SpotPrice is seeded with: the static on-demand price of the
\* embedded snapshot.
SeededSpotPrice(t) ==
    IF t \in DOMAIN staticPricing(region)
    THEN [price |-> staticPricing(region)[t], ok |-> TRUE]
    ELSE [price |-> 0, ok |-> FALSE]

\* C10 (as amended): until the first UpdateSpotPricing that returns nil,
\* SpotPrice(t, z) returns, for every zone z, the on-demand price of t seeded
\* from the embedded snapshot at initialization (not found for a type the
\* snapshot does not hold), also after on-demand prices have been refreshed.
C10_SpotPriceIsSeededDefault ==
    ~spotUpdateReturnedNil =>
        \A t \in InstanceTypeNames, z \in PriceZones : SpotPrice(t, z) = SeededSpotPrice(t)

\* C10 as stated: until the first successful UpdateSpotPricing, SpotPrice(t, z)
\* is the on-demand price of t, also after an on-demand refresh.
C10_SpotPriceIsOnDemandPrice ==
    ~spotUpdateReturnedNil =>
        \A t \in InstanceTypeNames, z \in PriceZones : SpotPrice(t, z) = OnDemandPrice(t)

\* On-demand prices have been refreshed, no spot update has succeeded yet,
\* and a caller is inside UpdateSpotPricing.
C10_Witness ==
    /\ ~spotUpdateReturnedNil
    /\ odUpdateReturnedNil
    /\ onDemandPrices # staticPricing(region)
    /\ \E w \in PriceCallers : ppc[w] = "apply" /\ pkind[w] = "spot"

(***************************************************************************)
(* PROPERTIES: launch templates                                            *)
(***************************************************************************)

\* The step of EnsureAll of worker w that calls createLaunchTemplate.
CreateCallStep(w) == ltpc[w] = "create" /\ ltpc'[w] # "create"

C7_InvalidateKeepsCloudTemplate ==
    [][\A w \in LTWorkers :
        /\ (ltpc[w] = "invalidate" /\ ltpc'[w] = "reattach") =>
              /\ Head(ltTodo[w]) \notin DOMAIN ltCache'
              /\ pendingEvictions' = pendingEvictions
              /\ cloudTemplates' = cloudTemplates
              /\ evictDeleteCalls' = evictDeleteCalls
        /\ (ltpc[w] = "reattach" /\ ltpc'[w] = "idle") => onEvicted']_vars

\* InvalidateCache has just deleted the entry of a template that is still in
\* the cloud, with the callback detached and none pending.
C7_Witness ==
    \E w \in LTWorkers :
        /\ ltpc[w] = "reattach"
        /\ ~onEvicted
        /\ Head(ltTodo[w]) \in DOMAIN cloudTemplates
        /\ Head(ltTodo[w]) \notin DOMAIN ltCache
        /\ pendingEvictions = {}
        /\ evictDeleteCalls = 0
        /\ ltCreated[Head(ltTodo[w])] = 1

(***************************************************************************)
(* PROPERTIES: vSwitches and the launch pipeline                           *)
(***************************************************************************)

\* C1: whatever the interleaving of the Create calls, the in-flight count of
\* every tracked vSwitch is the count it was first debited from less every
\* debit made since (add-backs added): no debit is lost or overwritten, so
\* two debits of a vSwitch deduct the pods minimum twice.
C1_NoDebitLost == inflightIPs = debitLedger

\* Both Create calls have debited the same vSwitch and not yet returned, and
\* its in-flight count is the cached count less both pods minima.
C1_Witness ==
    /\ \A w \in LaunchWorkers : lpc[w] = "group"
    /\ \E id \in VSwitchIDs :
          /\ \A w \in LaunchWorkers :
                /\ id \in ZonalIDs(zonalVSwitches[w])
                /\ minPods(lTypes[w], lCT[w], ZoneOf[id]) > 0
          /\ id \in DOMAIN availableIPAddressCache
          /\ id \in DOMAIN inflightIPs
          /\ inflightIPs[id] = availableIPAddressCache[id]
                                - minPods(lTypes["c1"], lCT["c1"], ZoneOf[id])
                                - minPods(lTypes["c2"], lCT["c2"], ZoneOf[id])

\* The effective count of a vSwitch: the tracked in-flight value if there is
\* one, otherwise the cached available-IP count (0 when none is cached).
EffectiveCount(id) ==
    IF id \in DOMAIN inflightIPs THEN inflightIPs[id]
    ELSE IF id \in DOMAIN availableIPAddressCache THEN availableIPAddressCache[id]
    ELSE 0

\* m is the minimum pods capacity over the instance types with an available
\* offering in the zone and capacity type (0 when there is no such type).
IsPodsMinimum(m, instanceTypes, capacityType, zone) ==
    LET fit == {it \in instanceTypes :
                   \E i \in DOMAIN it.offerings :
                       /\ it.offerings[i].available
                       /\ it.offerings[i].zone = zone
                       /\ it.offerings[i].capacityType = capacityType}
    IN  IF fit = {} THEN m = 0
        ELSE (\E it \in fit : it.pods = m) /\ (\A it \in fit : m <= it.pods)

\* The in-flight entry of id is the same before and after the step.
InflightEntryUnchanged(id) ==
    /\ (id \in DOMAIN inflightIPs') = (id \in DOMAIN inflightIPs)
    /\ id \in DOMAIN inflightIPs => inflightIPs'[id] = inflightIPs[id]

\* C2: ZonalVSwitchesForLaunch takes as previous count of each chosen vSwitch
\* its effective count, and on its debit every chosen vSwitch is tracked at
\* that count less the pods minimum of its zone and the capacity type, while
\* the entries of the vSwitches not chosen stay as they are.
C2_DebitIsPodsMinimum ==
    [][\A w \in LaunchWorkers :
        /\ (lpc[w] = "idle" /\ lpc'[w] = "debit") =>
              \A id \in ZonalIDs(zonalVSwitches'[w]) :
                  id \in DOMAIN prevIPs'[w] /\ prevIPs'[w][id] = EffectiveCount(id)
        /\ (lpc[w] = "debit" /\ lpc'[w] = "group") =>
              \A id \in VSwitchIDs :
                  IF id \in ZonalIDs(zonalVSwitches[w])
                  THEN /\ id \in DOMAIN inflightIPs'
                       /\ \E m \in {0} \cup {it.pods : it \in lTypes[w]} :
                             /\ IsPodsMinimum(m, lTypes[w], lCT[w], ZoneOf[id])
                             /\ inflightIPs'[id] = prevIPs[w][id] - m
                  ELSE InflightEntryUnchanged(id)]_vars

\* A debit has been made of a vSwitch that was tracked before, in a zone where
\* another tracked vSwitch was not chosen, for types of different pods.
C2_Witness ==
    \E w \in LaunchWorkers :
        /\ lpc[w] = "group"
        /\ lTypes[w] = {SmallType, BigType}
        /\ \E id \in ZonalIDs(zonalVSwitches[w]), other \in DOMAIN inflightIPs :
              /\ other \notin ZonalIDs(zonalVSwitches[w])
              /\ ZoneOf[other] = ZoneOf[id]
              /\ id \in DOMAIN availableIPAddressCache
              /\ inflightIPs[id] < availableIPAddressCache[id]

\* The step of UpdateInflightIPs on the launch of w.
UpdateStep(w) == ~restored[w] /\ restored'[w]

\* The count of id that ZonalVSwitchesForLaunch returned to the launch of w.
CountAtDebit(w, id) ==
    LET zonal == zonalVSwitches[w]
    IN  IF ZoneOf[id] \in DOMAIN zonal /\ zonal[ZoneOf[id]].ID = id
        THEN zonal[ZoneOf[id]].AvailableIPAddressCount
        ELSE 0 - 1

\* The in-flight count of id grows in the step by the pods minimum of its zone.
InflightIncreased(w, id) ==
    /\ id \in DOMAIN inflightIPs
    /\ id \in DOMAIN inflightIPs'
    /\ \E m \in {0} \cup {it.pods : it \in lTypes[w]} :
          /\ IsPodsMinimum(m, lTypes[w], lCT[w], ZoneOf[id])
          /\ inflightIPs'[id] = inflightIPs[id] + m

\* C3 (amended): UpdateInflightIPs increases the in-flight count of a vSwitch
\* by the pods minimum of its zone exactly when the vSwitch is in R \ P, the
\* cache still holds a count for it equal to the count at the debit, and an
\* in-flight entry of it is still tracked; every other entry is unchanged.
C3_AddBackWhenFreshAndTracked ==
    [][\A w \in LaunchWorkers : UpdateStep(w) =>
        \A id \in VSwitchIDs :
            IF /\ id \in lRequest[w] \ lResponse[w]
               /\ id \in DOMAIN availableIPAddressCache
               /\ availableIPAddressCache[id] = CountAtDebit(w, id)
               /\ id \in DOMAIN inflightIPs
            THEN InflightIncreased(w, id)
            ELSE InflightEntryUnchanged(id)]_vars

\* C3 (as stated): UpdateInflightIPs increases the in-flight count of every
\* vSwitch in R \ P whose cached count is the count at the debit, and leaves
\* the others unchanged.
C3_AddBackWhenFresh ==
    [][\A w \in LaunchWorkers : UpdateStep(w) =>
        \A id \in lRequest[w] \ lResponse[w] :
            IF /\ id \in DOMAIN availableIPAddressCache
               /\ availableIPAddressCache[id] = CountAtDebit(w, id)
            THEN InflightIncreased(w, id)
            ELSE InflightEntryUnchanged(id)]_vars

\* UpdateInflightIPs has run on a launch that used one of two requested
\* vSwitches, and the other is back at its cached count.
C3_Witness ==
    \E w \in LaunchWorkers :
        /\ restored[w]
        /\ lOutcome[w] = "launched"
        /\ \A o \in LaunchWorkers \ {w} : lpc[o] = "idle"
        /\ \E id \in lRequest[w] \ lResponse[w] :
              /\ minPods(lTypes[w], lCT[w], ZoneOf[id]) > 0
              /\ id \in DOMAIN inflightIPs
              /\ id \in DOMAIN availableIPAddressCache
              /\ inflightIPs[id] = availableIPAddressCache[id]
        /\ \E id \in lResponse[w] :
              /\ id \in DOMAIN inflightIPs
              /\ id \in DOMAIN availableIPAddressCache
              /\ inflightIPs[id] < availableIPAddressCache[id]

\* C4 (as stated): a Create that has debited and submitted its request has
\* called UpdateInflightIPs for it by the time it returns.
C4_CreateAddsBackBeforeReturn ==
    \A w \in LaunchWorkers :
        (lpc[w] = "returned" /\ lOutcome[w] \in {"launched", "failed"}) => restored[w]

(***************************************************************************)
(* PROPERTIES: pricing, after the first spot refresh                       *)
(***************************************************************************)

\* The step in which an UpdateSpotPricing of caller w installs the feed data
\* and returns nil.
SpotRefreshStep(w) ==
    /\ ppc[w] = "apply"
    /\ pkind[w] = "spot"
    /\ priceData # EmptyMap
    /\ ppc'[w] = "idle"

\* What the feed data reports as the spot price of a type in a zone.
FeedSpotPrice(prices, t, z) ==
    IF t \in DOMAIN prices /\ z \in DOMAIN prices[t].spot
    THEN [price |-> prices[t].spot[z], ok |-> TRUE]
    ELSE [price |-> 0, ok |-> FALSE]

\* C11 (as stated): after a spot refresh SpotPrice returns, for every type and
\* zone, the price the feed data just installed reports, and not-found where
\* that data lists no price.
C11_SpotPriceIsLatestFeed ==
    [][\A w \in PriceCallers : SpotRefreshStep(w) =>
        \A t \in InstanceTypeNames, z \in PriceZones :
            SpotPrice(t, z)' = FeedSpotPrice(priceData, t, z)]_vars

(***************************************************************************)
(* PROPERTIES: drift                                                       *)
(***************************************************************************)
\* IsDrifted has returned.
DriftChecked == driftResult # NoDriftResult

\* Both objects carry both annotations.
AllAnnotationsFound ==
    AnnotationKeys \subseteq (DOMAIN nodeClass.annotations \cap DOMAIN nodeClaim.annotations)

SameHashVersion ==
    /\ AllAnnotationsFound
    /\ nodeClass.annotations[AnnotationECSNodeClassHashVersion]
           = nodeClaim.annotations[AnnotationECSNodeClassHashVersion]

SameHash ==
    /\ AllAnnotationsFound
    /\ nodeClass.annotations[AnnotationECSNodeClassHash]
           = nodeClaim.annotations[AnnotationECSNodeClassHash]

\* The static drift reason is NodeClassDrift.
StaticDrift == SameHashVersion /\ ~SameHash

\* The lookups of IsDrifted reach the NodeClass and the instance.
LookupsSucceed == driftLookup = "ok"

SecurityGroupSetsDiffer ==
    SetOf(nodeClass.securityGroups) # SetOf(ecsInstance.securityGroupIDs)

VSwitchNotInStatus ==
    ecsInstance.vSwitchID \notin SetOf(nodeClass.vSwitches)

\* C12: with equal hash versions the static drift reason is NodeClassDrift
\* exactly when the hashes differ; with different versions, or with any of the
\* four annotations missing, it is empty whatever the hashes are.
C12_StaticDriftByHashAndVersion ==
    /\ (SameHashVersion /\ SameHash) => areStaticFieldsDrifted(nodeClaim, nodeClass) = ""
    /\ (SameHashVersion /\ ~SameHash)
           => areStaticFieldsDrifted(nodeClaim, nodeClass) = NodeClassDrift
    /\ ~SameHashVersion => areStaticFieldsDrifted(nodeClaim, nodeClass) = ""
    /\ (DriftChecked /\ LookupsSucceed /\ StaticDrift)
           => driftResult = DriftReturn(NodeClassDrift, "")

\* A drift check of a NodeClaim whose hash differs from the NodeClass's under
\* the same hash version has returned NodeClassDrift.
C12_Witness ==
    /\ DriftChecked
    /\ LookupsSucceed
    /\ SameHashVersion
    /\ ~SameHash
    /\ driftResult.reason = NodeClassDrift

\* The reason the precedence order static, security-group, vSwitch selects.
FirstReason ==
    IF StaticDrift THEN NodeClassDrift
    ELSE IF SecurityGroupSetsDiffer THEN SecurityGroupDrift
    ELSE IF VSwitchNotInStatus THEN VSwitchDrift
    ELSE ""

\* C13 (as stated): a drift check whose lookups succeed returns the first
\* non-empty reason in the order static, security-group, vSwitch.
C13_FirstReasonInPrecedence ==
    (DriftChecked /\ LookupsSucceed) => driftResult = DriftReturn(FirstReason, "")

\* Both status lists of the NodeClass are non-empty.
StatusResolved ==
    /\ Len(nodeClass.securityGroups) > 0
    /\ Len(nodeClass.vSwitches) > 0

\* C13 (amended): a drift check whose lookups succeed returns NodeClassDrift
\* when static drift holds; otherwise, when both status lists are non-empty, the
\* first non-empty reason in the order security-group, vSwitch; otherwise an
\* error and no reason, even if the other axis drifted.
C13_FirstReasonUnlessStatusEmpty ==
    (DriftChecked /\ LookupsSucceed) =>
        /\ (StaticDrift \/ StatusResolved) => driftResult = DriftReturn(FirstReason, "")
        /\ (~StaticDrift /\ ~StatusResolved)
               => (driftResult.reason = "" /\ driftResult.err # "")

\* A drift check has returned SecurityGroupDrift for an instance whose vSwitch
\* drifted as well.
C13_Witness ==
    /\ DriftChecked
    /\ LookupsSucceed
    /\ ~StaticDrift
    /\ StatusResolved
    /\ SecurityGroupSetsDiffer
    /\ VSwitchNotInStatus
    /\ driftResult = DriftReturn(SecurityGroupDrift, "")

\* C14 (as stated): with no security groups in the NodeClass status a drift
\* check that reaches the NodeClass returns an error.
C14_NoSecurityGroupsIsError ==
    (DriftChecked /\ driftLookup \in {"ok", "instanceError"}
         /\ Len(nodeClass.securityGroups) = 0)
        => (driftResult.reason = "" /\ driftResult.err # "")

\* C14 (amended): with no security groups in the NodeClass status a drift
\* check that reaches the NodeClass returns an error unless static drift holds,
\* in which case it returns NodeClassDrift without looking at the status.
C14_NoSecurityGroupsIsErrorUnlessStatic ==
    (DriftChecked /\ driftLookup \in {"ok", "instanceError"}
         /\ Len(nodeClass.securityGroups) = 0)
        => IF StaticDrift
           THEN driftResult = DriftReturn(NodeClassDrift, "")
           ELSE driftResult.reason = "" /\ driftResult.err # ""

\* A drift check against a NodeClass without status security groups has
\* returned an error.
C14_Witness ==
    /\ DriftChecked
    /\ LookupsSucceed
    /\ Len(nodeClass.securityGroups) = 0
    /\ Len(nodeClass.vSwitches) > 0
    /\ ~StaticDrift
    /\ driftResult = DriftReturn("", "calculating securitygroup drift")

\* C15: with a non-empty status list the security-group check reports
\* SecurityGroupDrift exactly when the instance's ids and the status ids differ
\* as sets, and a drift check that gets that far returns it.
C15_SecurityGroupDriftIffSetsDiffer ==
    Len(nodeClass.securityGroups) > 0 =>
        /\ areSecurityGroupsDrifted(ecsInstance, nodeClass)
               = DriftReturn(IF SecurityGroupSetsDiffer THEN SecurityGroupDrift ELSE "", "")
        /\ (DriftChecked /\ LookupsSucceed /\ ~StaticDrift /\ StatusResolved)
               => (driftResult.reason = SecurityGroupDrift <=> SecurityGroupSetsDiffer)

\* Status {sgA, sgB}, instance {sgA}: the drift check has returned
\* SecurityGroupDrift.
C15_Witness ==
    /\ DriftChecked
    /\ SetOf(nodeClass.securityGroups) = {"sgA", "sgB"}
    /\ ecsInstance.securityGroupIDs = <<"sgA">>
    /\ driftResult = DriftReturn(SecurityGroupDrift, "")

\* C16: with a non-empty status list the vSwitch check reports VSwitchDrift
\* exactly when the instance's vSwitch id is not among the status ids, and a
\* drift check that finds no earlier reason returns it.
C16_VSwitchDriftIffNotInStatus ==
    Len(nodeClass.vSwitches) > 0 =>
        /\ isVSwitchDrifted(ecsInstance, nodeClass)
               = DriftReturn(IF VSwitchNotInStatus THEN VSwitchDrift ELSE "", "")
        /\ (DriftChecked /\ LookupsSucceed /\ ~StaticDrift /\ StatusResolved
                /\ ~SecurityGroupSetsDiffer)
               => (driftResult.reason = VSwitchDrift <=> VSwitchNotInStatus)

\* Instance vsw-3, status {vsw-1, vsw-2}: the drift check has returned
\* VSwitchDrift.
C16_Witness ==
    /\ DriftChecked
    /\ nodeClass.vSwitches = <<"vsw-1", "vsw-2">>
    /\ ecsInstance.vSwitchID = "vsw-3"
    /\ driftResult = DriftReturn(VSwitchDrift, "")

(***************************************************************************)
(* PROPERTIES: Create and Delete                                           *)
(***************************************************************************)
\* The last Create returned without sending a provisioning-group request.
NoLaunchSubmitted ==
    /\ createCall.launch = "none"
    /\ createCall.requested = {}

\* C17 (as stated): a Create for a NodeClass whose Ready condition is False
\* or Unknown fails with a NodeClassNotReadyError and submits no launch.
C17_NotReadyIsNodeClassNotReadyError ==
    (createCall # NoCall /\ createCall.ready \in {"False", "Unknown"}) =>
        /\ createCall.result = "NodeClassNotReadyError"
        /\ NoLaunchSubmitted

\* C17 (amended): a Create for a NodeClass whose Ready condition is False
\* fails with a NodeClassNotReadyError; one whose Ready condition is Unknown
\* fails with an error that is not a NodeClassNotReadyError; neither submits
\* a launch.
C17_NotReadyFailsWithoutLaunch ==
    (createCall # NoCall /\ createCall.ready \in {"False", "Unknown"}) =>
        /\ createCall.ready = "False" => createCall.result = "NodeClassNotReadyError"
        /\ createCall.ready = "Unknown" => createCall.result = "error"
        /\ NoLaunchSubmitted

\* A Create for a NodeClass with Ready=Unknown has failed with a plain error
\* while the cloud holds an instance of an earlier Create.
C17_Witness ==
    /\ createCall # NoCall
    /\ createCall.ready = "Unknown"
    /\ createCall.result = "error"
    /\ NoLaunchSubmitted
    /\ ecsInstances # {}

\* C18 (as stated): a Create fails with an InsufficientCapacityError when no
\* instance type survives filtering, when no launch template is available for
\* the provisioning-group request, and when the provisioning call answers with
\* an empty launch result.
C18_CapacityFailuresAreInsufficientCapacity ==
    (/\ createCall # NoCall
     /\ \/ createCall.stage = "filter"
        \/ createCall.launch \in {"noTemplates", "emptyLaunchResult"})
        => createCall.result = "InsufficientCapacityError"

\* C19 (as stated): once the cloud has refused the offerings of a launch, they
\* are in the unavailable-offerings cache, so that a listing reports them as
\* not available.
C19_RefusedOfferingsMarkedUnavailable ==
    (createCall # NoCall /\ createCall.launch = "refused") =>
        \A o \in createCall.requested :
            /\ IsUnavailable(unavailableOfferings, o[1], o[2], o[3])
            /\ \A it \in ListInstanceTypes(unavailableOfferings, instanceTypeOfferings) :
                  it.name = o[1] => ~HasCompatible(it, o[3], o[2])

\* C20: a Delete that the cloud answers with not found returns the typed
\* NodeClaimNotFoundError.
C20_NotFoundIsNodeClaimNotFoundError ==
    (deleteCall # NoCall /\ deleteCall.status = 404)
        => deleteCall.result = "NodeClaimNotFoundError"

\* A Delete of an instance the cloud no longer holds has returned the typed
\* error.
C20_Witness ==
    /\ deleteCall # NoCall
    /\ ~deleteCall.existed
    /\ deleteCall.status = 404
    /\ deleteCall.result = "NodeClaimNotFoundError"
    /\ nextInstanceID > 1

\* C21 (as stated): a Get whose describe call returns no instance for the id
\* returns the typed NodeClaimNotFoundError.
C21_GetOfMissingInstanceIsNotFound ==
    (getCall # NoCall /\ getCall.described /\ ~getCall.existed)
        => getCall.result = "NodeClaimNotFoundError"

\* C24: in the offerings of every instance type the instance-type provider
\* lists, no two offerings have the same zone and the same capacity type.
C24_OneOfferingPerZoneAndCapacityType ==
    \A it \in ListInstanceTypes(unavailableOfferings, instanceTypeOfferings) :
        \A i, j \in DOMAIN it.offerings :
            (/\ it.offerings[i].zone = it.offerings[j].zone
             /\ it.offerings[i].capacityType = it.offerings[j].capacityType) => i = j

\* A Create has listed the instance types, and a listed type has two
\* available offerings in one zone, one per capacity type, and an offering
\* in another zone where it is not sold.
C24_Witness ==
    /\ createCall # NoCall
    /\ \E it \in ListInstanceTypes(unavailableOfferings, instanceTypeOfferings) :
          \E i, j, k \in DOMAIN it.offerings :
              /\ it.offerings[i].zone = it.offerings[j].zone
              /\ it.offerings[i].capacityType # it.offerings[j].capacityType
              /\ it.offerings[i].available /\ it.offerings[j].available
              /\ it.offerings[k].zone # it.offerings[i].zone
              /\ ~it.offerings[k].available

(***************************************************************************)
(* PROPERTIES: List                                                        *)
(***************************************************************************)
\* C22 (as stated): a List that returns without error returns every instance
\* that matches the tag filter, from every page the cloud returned.
C22_ListReturnsEveryPage ==
    (listpc = "returned" /\ listOutcome = "ok") => listedInstances = taggedInstances

\* C30 (as stated): once the context of a List is cancelled no request for a
\* further page is issued.
C30_NoPageRequestAfterCancel == pagesAfterCancel = 0

(***************************************************************************)
(* PROPERTIES: the auto-provisioning request                               *)
(***************************************************************************)
\* C23 (as stated): the instance of every launch that succeeded carries the
\* four static tags with the values getTags gives them.
C23_LaunchedInstanceCarriesStaticTags ==
    (launchCall # NoCall /\ launchCall.err = "")
        => \A k \in DOMAIN staticTags :
              MapGet(launchCall.instanceTags, k, "") = staticTags[k]

\* The node claim admits spot and a candidate type has an available spot
\* offering in a zone the node claim admits.
SpotIsPossible ==
    /\ "spot" \in claimRequirements.capacityTypes
    /\ \E i \in DOMAIN candidateTypes : \E o \in DOMAIN candidateTypes[i].offerings :
          /\ candidateTypes[i].offerings[o].available
          /\ candidateTypes[i].offerings[o].capacityType = "spot"
          /\ candidateTypes[i].offerings[o].zone \in claimRequirements.zones

\* C25: a launch uses spot exactly when the node claim admits spot and a
\* candidate type has an available spot offering its requirements admit, and
\* on-demand in every other case; the request it submits asks for one
\* instance of that capacity type.
C25_SpotIffAllowedAndAvailable ==
    launchCall # NoCall =>
        /\ launchCall.capacityType = (IF SpotIsPossible THEN "spot" ELSE "on-demand")
        /\ launchCall.submitted =>
              /\ launchCall.request.SpotTargetCapacity = (IF SpotIsPossible THEN 1 ELSE 0)
              /\ launchCall.request.PayAsYouGoTargetCapacity = (IF SpotIsPossible THEN 0 ELSE 1)

\* A spot launch of more than one candidate type was submitted.
C25_Witness ==
    /\ launchCall # NoCall
    /\ launchCall.submitted
    /\ launchCall.capacityType = "spot"
    /\ launchCall.request.SpotTargetCapacity = 1
    /\ Len(candidateTypes) > 1

\* On-demand was chosen for a node claim that admits spot as well.
OnDemandFallback ==
    /\ launchCall.capacityType = "on-demand"
    /\ "spot" \in claimRequirements.capacityTypes

\* C26 (as stated): a launch that fell back to on-demand reaches submission
\* only with at least instanceTypeFlexibilityThreshold candidate types.
C26_FloorIsEnforced ==
    (launchCall # NoCall /\ OnDemandFallback /\ launchCall.submitted)
        => Len(candidateTypes) >= instanceTypeFlexibilityThreshold

\* C26 (amended): a launch that fell back to on-demand with fewer than
\* instanceTypeFlexibilityThreshold candidate types logs the flexibility
\* error, no other launch does, and the error decides nothing: the request is
\* submitted exactly when the launch templates resolved and every candidate
\* type found a vSwitch.
C26_FloorIsLoggedOnly ==
    launchCall # NoCall =>
        /\ launchCall.odFallbackLogged
              <=> (OnDemandFallback /\ Len(candidateTypes) < instanceTypeFlexibilityThreshold)
        /\ launchCall.submitted
              <=> /\ launchCall.ensure = "ok"
                  /\ \A i \in DOMAIN candidateTypes :
                        getVSwitchID(candidateTypes[i], zonalVSwitchs,
                                     [claimRequirements EXCEPT
                                         !.capacityTypes = {launchCall.capacityType}]) # ""

\* A launch that fell back to on-demand with fewer candidate types than the
\* floor logged the error and was submitted.
C26_Witness ==
    /\ launchCall # NoCall
    /\ OnDemandFallback
    /\ Len(candidateTypes) < instanceTypeFlexibilityThreshold
    /\ launchCall.odFallbackLogged
    /\ launchCall.submitted

\* The candidate types for which getVSwitchID finds a vSwitch under the
\* requirements of the launch.
TypesWithVSwitch ==
    {i \in DOMAIN candidateTypes :
        getVSwitchID(candidateTypes[i], zonalVSwitchs,
                     [claimRequirements EXCEPT !.capacityTypes = {launchCall.capacityType}]) # ""}

\* C27 (as stated): once the launch templates resolved, the request holds
\* one entry for each candidate type that has a vSwitch and none for the
\* others, and the build fails only when no candidate type has one.
C27_TypeWithoutVSwitchIsDropped ==
    (launchCall # NoCall /\ launchCall.ensure = "ok") =>
        /\ launchCall.submitted <=> TypesWithVSwitch # {}
        /\ launchCall.submitted =>
              {c.InstanceType : c \in Range(launchCall.request.LaunchTemplateConfig)}
                  = {candidateTypes[i].name : i \in TypesWithVSwitch}

(***************************************************************************)
(* PROPERTIES: the NodeClass status controller                             *)
(***************************************************************************)
\* The last patch of the Reconcile reached the API server when the stored
\* NodeClass was no longer the one the patch was computed from.
WriteMetNewerObject ==
    /\ rcWrite # NoWrite
    /\ rcWrite.answer = "served"
    /\ rcWrite.before.resourceVersion # rcWrite.base

\* C28: a patch of the status controller changes the stored NodeClass only
\* when the stored object still has the resourceVersion the controller read;
\* a patch that meets a newer object leaves it as it is, and Reconcile then
\* returns Requeue without an error.
C28_ConflictingWriteIsRejected ==
    rcWrite # NoWrite =>
        /\ rcWrite.after # rcWrite.before => rcWrite.before.resourceVersion = rcWrite.base
        /\ WriteMetNewerObject =>
              /\ rcWrite.after = rcWrite.before
              /\ rcpc = "idle"
              /\ rcResult = Result(TRUE, 0, FALSE)

\* A status patch met a NodeClass another client had changed after the
\* controller read it; the object kept the other client's state and
\* Reconcile asked for a requeue.
C28_Witness ==
    /\ WriteMetNewerObject
    /\ rcWrite.kind = "status"
    /\ rcWrite.before.generation > rcStored.generation
    /\ apiNodeClass = rcWrite.before
    /\ rcNodeClass # rcStored
    /\ rcResult = Result(TRUE, 0, FALSE)

\* C29 (as stated): a Reconcile that returns without error asks for a
\* requeue after 1 to 5 minutes.
C29_RequeueWithinOneToFiveMinutes ==
    (rcResult # NoResult /\ ~rcResult.err) => rcResult.RequeueAfter \in 1..5

\* C29 (amended): a Reconcile that returns without error asks for an
\* immediate requeue after a patch conflict; otherwise it asks for a requeue
\* after 1 minute when the vSwitch selector matched, after 5 minutes when
\* only another selector matched, and for none when no selector matched.
C29_RequeueUnlessNothingMatched ==
    (rcResult # NoResult /\ ~rcResult.err) =>
        IF WriteMetNewerObject THEN rcResult = Result(TRUE, 0, FALSE)
        ELSE /\ ~rcResult.Requeue
             /\ rcOutcomes # NoOutcomes
             /\ rcResult.RequeueAfter =
                    (IF rcOutcomes[1] = "matched" THEN 1
                     ELSE IF \E i \in DOMAIN rcOutcomes : rcOutcomes[i] = "matched" THEN 5
                     ELSE 0)

\* The vSwitch selector matched nothing, its status was written as such, the
\* other selectors matched, and Reconcile asked for a requeue after 5 minutes.
C29_Witness ==
    /\ rcResult # NoResult
    /\ ~rcResult.err
    /\ rcOutcomes = <<"none", "matched", "matched">>
    /\ apiNodeClass.vSwitches = "none"
    /\ rcResult.RequeueAfter = 5

RECURSIVE SumOutstanding(_, _)
SumOutstanding(workers, id) ==
    IF workers = {} THEN 0
    ELSE LET w == CHOOSE x \in workers : TRUE
         IN  MapGet(outstandingDebits[w], id, 0) + SumOutstanding(workers \ {w}, id)

\* C32 (as stated): the effective count of every vSwitch with a cached count
\* is at most the cached count less the debits taken since its last refresh
\* by Creates that have not yet run UpdateInflightIPs.
C32_EffectiveCountIsConservative ==
    \A id \in DOMAIN availableIPAddressCache :
        EffectiveCount(id) <= availableIPAddressCache[id] - SumOutstanding(LaunchWorkers, id)

\* C34 (as stated): a Create that returned an error or launched nothing after
\* its debit has left no debit behind.
C34_FailedCreateLeavesNoDebit ==
    \A w \in LaunchWorkers :
        (lpc[w] = "returned" /\ lOutcome[w] \in {"error", "failed"}) =>
            \A id \in DOMAIN outstandingDebits[w] : outstandingDebits[w][id] = 0

\* The choice of ZonalVSwitchesForLaunch for the Status.VSwitches it was given:
\* one entry per zone of the list, each a vSwitch of the list in that zone
\* whose effective count no other vSwitch of the list in the zone exceeds.
BestPerZone(status, zonal) ==
    LET ids == {status[i].ID : i \in 1..Len(status)}
    IN  /\ DOMAIN zonal = {ZoneOf[id] : id \in ids}
        /\ \A z \in DOMAIN zonal :
              /\ zonal[z].ID \in ids
              /\ ZoneOf[zonal[z].ID] = z
              /\ \A id \in ids :
                    ZoneOf[id] = z => EffectiveCount(zonal[z].ID) >= EffectiveCount(id)

\* C39: the map ZonalVSwitchesForLaunch builds has one vSwitch per zone of the
\* status list, the one with the largest effective available-IP count of the
\* zone, tracked in-flight values standing in for cached counts on both sides.
C39_LargestEffectiveCountPerZone ==
    [][\A w \in LaunchWorkers :
          (lpc[w] = "idle" /\ lpc'[w] = "debit") =>
              \E status \in StatusLists :
                  status # <<>> /\ BestPerZone(status, zonalVSwitches'[w])]_vars

\* A Create holding the lock has passed over a vSwitch whose cached count is
\* not smaller, because its tracked in-flight value is.
C39_Witness ==
    \E w \in LaunchWorkers :
        /\ lpc[w] = "debit"
        /\ "za" \in DOMAIN zonalVSwitches[w]
        /\ zonalVSwitches[w]["za"].ID = "vsw-2"
        /\ "vsw-1" \in DOMAIN inflightIPs
        /\ MapGet(availableIPAddressCache, "vsw-1", 0) >= MapGet(availableIPAddressCache, "vsw-2", 0)
        /\ inflightIPs["vsw-1"] < EffectiveCount("vsw-2")

(***************************************************************************)
(* PROPERTIES: Create and List of the instance provider                    *)
(***************************************************************************)
\* C33 (as stated): the tags the launch request puts on the instance of a
\* successful Create satisfy the tag filter of List, so that List's
\* DescribeInstances request selects the instance.
C33_LaunchedInstanceMatchesListFilter ==
    (launchCall # NoCall /\ launchCall.err = "")
        => MatchesTagFilter(launchCall.instanceTags, ListTagFilter)

(***************************************************************************)
(* PROPERTIES: the mixed-capacity filter                                   *)
(***************************************************************************)
\* The candidates the mixed-capacity step receives.
StepInput == filterExoticInstanceTypes(filterCandidates)

\* The prices of the available offerings of a list of types.
AvailablePrices(instanceTypes, capacityTypes) ==
    {o.Price : o \in {x \in UNION {Range(it.offerings) : it \in Range(instanceTypes)} :
                          x.available /\ x.capacityType \in capacityTypes}}

\* The candidates whose cheapest available offering costs no more than the
\* cheapest available on-demand offering of all candidates.
NotDearerThanOnDemand(instanceTypes) ==
    SelectSeq(instanceTypes,
        LAMBDA it :
            \E p \in AvailablePrices(<<it>>, {"on-demand", "spot"}) :
                \A q \in AvailablePrices(instanceTypes, {"on-demand"}) : p <= q)

\* The candidates have an available offering of each capacity type among the
\* offerings picked out by keep.
OffersBoth(instanceTypes, keep(_)) ==
    /\ \E it \in Range(instanceTypes) : \E o \in Range(it.offerings) :
            o.available /\ keep(o) /\ o.capacityType = "spot"
    /\ \E it \in Range(instanceTypes) : \E o \in Range(it.offerings) :
            o.available /\ keep(o) /\ o.capacityType = "on-demand"

AllowsBoth == {"spot", "on-demand"} \subseteq filterClaim.capacityTypes

\* C40 (as stated): when the node claim admits both capacity types and the
\* candidates have available offerings of both, the step keeps exactly the
\* candidates whose cheapest available offering costs no more than the
\* cheapest available on-demand offering; otherwise it changes nothing.
C40_FilterWhenCandidatesOfferBoth ==
    filterResult.done =>
        filterResult.types =
            IF AllowsBoth /\ OffersBoth(StepInput, LAMBDA o : TRUE)
            THEN NotDearerThanOnDemand(StepInput) ELSE StepInput

\* C40 (amended): the same, the candidates having available offerings of
\* both capacity types among those the node claim's requirements admit.
C40_FilterWhenCompatibleOfferingsOfBoth ==
    filterResult.done =>
        filterResult.types =
            IF AllowsBoth /\ OffersBoth(StepInput, LAMBDA o : Compatible(filterClaim, o))
            THEN NotDearerThanOnDemand(StepInput) ELSE StepInput

\* The step has dropped a candidate whose cheapest available offering, a spot
\* one, is dearer than the cheapest on-demand offering of the candidates.
C40_Witness ==
    /\ filterResult.done
    /\ filterCandidates = <<CheapSpotType, DearSpotType>>
    /\ AllowsBoth
    /\ filterResult.types = <<CheapSpotType>>

(***************************************************************************)
(* PROPERTIES: launch templates, the eviction of expired entries           *)
(***************************************************************************)
\* C36 (as stated): a template the provider created, whose cache entry has
\* expired, is in the end deleted from the cloud unless the entry is
\* refreshed, whatever InvalidateCache does meanwhile.
C36_ExpiredTemplateIsDeleted ==
    \A n \in TemplateNames :
        (n \in DOMAIN ltCache /\ ltCache[n].expired /\ ltCreated[n] > 0
            /\ n \in DOMAIN cloudTemplates)
        ~> (n \notin DOMAIN cloudTemplates \/ CacheLive(n))

(***************************************************************************)
(* PROPERTIES: the instance-type provider                                  *)
(***************************************************************************)
\* C35 (as stated): the list a List call returns is the list a fresh
\* computation from the provider's inputs at the time of the call produces,
\* offering prices and availability flags included.
C35_ListEqualsFreshComputation ==
    (lastList.done /\ lastList.err = "") => lastList.result = lastList.fresh

\* C37 (as stated): after a successful UpdateInstanceTypes the provider holds
\* the instance types of every page of the catalog.
C37_UpdateStoresEveryPage ==
    (lastUpdate.kind = "types" /\ lastUpdate.ok) => instanceTypesInfo = lastUpdate.fetched

\* A step is an update of the kind given.
TypesUpdateStep(kind) == typeUpdates' = typeUpdates + 1 /\ lastUpdate'.kind = kind

====
